---- MODULE Spec2Model ----
(***************************************************************************)
(* LNbits MCP server: session registry, runtime configuration manager,     *)
(* rate-limited request pipeline and lightning-address payment.            *)
(*                                                                         *)
(* Python values are modelled as follows.                                  *)
(*   Optional[T]   a sequence of length <= 1: <<>> is None, <<v>> is v.     *)
(*   a URL string  a sequence of tokens <<scheme, host>> or                 *)
(*                 <<scheme, host, path>>.                                  *)
(*   a config      a record with the eight fields of LNbitsConfig.          *)
(***************************************************************************)
EXTENDS Integers, Sequences, FiniteSets, TLC

VARIABLES
    sessions,      \* SessionManager._sessions: the set of session ids in the map
    nextId,        \* number of ids handed out so far (uuid4 never repeats)
    mgr,           \* per session id: its RuntimeConfigManager (_config, _is_configured, _client)
    clients,       \* the heap of LNbitsClient objects, by object identity
    age,           \* per session id: utcnow() - last_accessed, in ticks (saturating)
    sweepPc,       \* position of the cleanup task
    sweepList,     \* expired_sessions of the running _remove_expired_sessions
    shutdown,      \* SessionManager._shutdown
    updates,       \* number of update_configuration calls made so far
    scanned,       \* the ids whose idle time exceeded the timeout at the last scan
    last,          \* the last operation performed, its input and its outcome
    pay,           \* one call of pay_lightning_address: its position, locals and network calls
    limit,         \* rate_limit_per_minute of the client under load
    permits,       \* value of that client's _rate_limiter semaphore
    reqPc,         \* per request of that client: its position in _request
    reqOut,        \* per request of that client: the response it got and how _request ended
    auth,          \* one AuthConfig and what its methods returned
    life,          \* the global registry: its manager, its sweep tasks, its shutdown, its locks
    calls          \* per session id: the client on which a get_wallet_balance call of its tools is suspended

registryVars ==
    <<sessions, nextId, mgr, clients, age, sweepPc, sweepList, shutdown, updates, scanned,
      last>>
clientVars == <<pay, limit, permits, reqPc, reqOut>>
auxVars == <<auth, life, calls>>
vars == <<registryVars, clientVars, auxVars>>

---------------------------------------------------------------------------
(* Bounds *)

\* Ids the registry may hand out in one behaviour.
MaxSessions == 2
\* update_configuration calls in one behaviour of Spec.
MaxUpdates == 2
\* Numeric inputs offered to timeout and rate_limit_per_minute: -1..MaxNum.
MaxNum == 1
\* The session timeout measured in clock ticks.
TimeoutTicks == 2

\* Requests issued to the client under load, and the largest rate limit
\* it is configured with.
MaxReqs == 3
MaxLimit == 2

\* LNbitsClient objects alive at one time.
MaxClients == 3
\* Requests that wait or are in flight on one client at one time.
MaxHeld == 2
\* sweep tasks created in one run
MaxTasks == 2

Ids == 1..MaxSessions
Reqs == 1..MaxReqs
TaskIds == 1..MaxTasks
ClientIds == 1..MaxClients

---------------------------------------------------------------------------
(* LNbitsConfig *)

DefaultTimeout == 30
DefaultMaxRetries == 3
DefaultRateLimit == 60
\* ConfigureLNbitsRequest: the ranges of timeout and rate_limit_per_minute
MinTimeout == 1
MaxTimeout == 300
MinRateLimit == 1
MaxRateLimit == 1000

None == <<>>
Some(v) == <<v>>
Opt(S) == {None} \cup {Some(v) : v \in S}

\* bool(x) of an Optional[str]: None and "" are falsy.
Truthy(opt) == opt # None /\ opt[1] # ""

AuthMethod == {"api_key_header", "api_key_query", "http_bearer", "oauth2"}

MASKED == "***MASKED***"

\* pydantic HttpUrl: an http or https scheme and a host are required.
ValidHttpUrl(u) ==
    /\ Len(u) \in {2, 3}
    /\ u[1] \in {"http://", "https://"}
    /\ u[2] # ""

\* pydantic HttpUrl: the parsed URL has path "/" when the text has none.
HttpUrl(u) == IF Len(u) = 2 THEN Append(u, "/") ELSE u

\* str() of a parsed URL is the normalised text.
UrlStr(u) == u

DefaultUrl == HttpUrl(<<"https://", "demo.lnbits.com">>)

DefaultConfig ==
    [lnbits_url |-> DefaultUrl,
     api_key |-> None,
     bearer_token |-> None,
     oauth2_token |-> None,
     auth_method |-> "api_key_header",
     timeout |-> DefaultTimeout,
     max_retries |-> DefaultMaxRetries,
     rate_limit_per_minute |-> DefaultRateLimit]

\* LNbitsConfig(**d) validates: the URL and the auth method are the only
\* constrained fields; timeout, max_retries and rate_limit_per_minute are
\* plain ints.
ConfigValidates(d) ==
    /\ ValidHttpUrl(d.lnbits_url)
    /\ d.auth_method \in AuthMethod

LNbitsConfig(d) == [d EXCEPT !.lnbits_url = HttpUrl(@)]

---------------------------------------------------------------------------
(* Inputs of update_configuration *)

UrlInputs == {<<"https://", "a.io">>, <<"a.io">>}
ApiKeyInputs == {"", "k1", "k2"}
BearerInputs == {"", "b1"}
OAuthInputs == {"o1", "o2"}
AuthInputs == {"api_key_query", "oauth2", "bogus"}
NumInputs == (-1)..MaxNum

Requests ==
    [lnbits_url : Opt(UrlInputs),
     api_key : Opt(ApiKeyInputs),
     bearer_token : Opt(BearerInputs),
     oauth2_token : Opt(OAuthInputs),
     auth_method : Opt(AuthInputs),
     timeout : Opt(NumInputs),
     rate_limit_per_minute : Opt(NumInputs)]

RequestFields ==
    {"lnbits_url", "api_key", "bearer_token", "oauth2_token", "auth_method",
     "timeout", "rate_limit_per_minute"}

NoRequest ==
    [lnbits_url |-> None, api_key |-> None, bearer_token |-> None,
     oauth2_token |-> None, auth_method |-> None, timeout |-> None,
     rate_limit_per_minute |-> None]

Supplied(req) == {f \in RequestFields : req[f] # None}

\* The requests offered to a session of the registry: one field each, the
\* URL (well-formed or not) or the API key.
SessionRequests ==
    {[NoRequest EXCEPT !.lnbits_url = Some(u)] : u \in UrlInputs}
    \cup {[NoRequest EXCEPT !.api_key = Some("k1")]}

\* The arguments offered to the configure tool: the fields of a request,
\* the numbers at and around the ends of their ranges, and with them an
\* unknown key or none.
ToolTimeoutInputs == {MinTimeout - 1, MinTimeout, MaxTimeout, MaxTimeout + 1}
ToolRateInputs == {MinRateLimit - 1, MinRateLimit, MaxRateLimit, MaxRateLimit + 1}

ToolArguments ==
    [lnbits_url : Opt(UrlInputs),
     api_key : Opt({"k1"}),
     bearer_token : {None},
     oauth2_token : {None},
     auth_method : Opt(AuthInputs),
     timeout : Opt(ToolTimeoutInputs),
     rate_limit_per_minute : Opt(ToolRateInputs)]

---------------------------------------------------------------------------
(* RuntimeConfigManager *)

\* RuntimeConfigManager.__init__
RuntimeConfigManager(config) ==
    [config |-> config, client |-> None, is_configured |-> FALSE]

\* asyncio.Semaphore(n) raises ValueError for n < 0.
ClientConstructs(config) == config.rate_limit_per_minute >= 0

\* AuthConfig(api_key=..., bearer_token=..., oauth2_token=..., auth_method=...)
AuthConfig(config) ==
    [api_key |-> config.api_key, bearer_token |-> config.bearer_token,
     oauth2_token |-> config.oauth2_token, auth_method |-> config.auth_method]

\* A header or a query parameter; its value is the sequence of the texts it
\* is put together from.
Entry(name, value) == [name |-> name, value |-> value]

\* get_headers that adds the API key header whatever method is selected.
get_headers_any_method(a) ==
    IF Truthy(a.api_key)
    THEN {Entry("X-API-KEY", <<a.api_key[1]>>)}
    ELSE IF a.auth_method = "http_bearer" /\ Truthy(a.bearer_token)
    THEN {Entry("Authorization", <<"Bearer ", a.bearer_token[1]>>)}
    ELSE IF a.auth_method = "oauth2" /\ Truthy(a.oauth2_token)
    THEN {Entry("Authorization", <<"Bearer ", a.oauth2_token[1]>>)}
    ELSE {}

\* AuthConfig.get_headers
get_headers(a) ==
    IF a.auth_method = "api_key_header" /\ Truthy(a.api_key)
    THEN {Entry("X-API-KEY", <<a.api_key[1]>>)}
    ELSE IF a.auth_method = "http_bearer" /\ Truthy(a.bearer_token)
    THEN {Entry("Authorization", <<"Bearer ", a.bearer_token[1]>>)}
    ELSE IF a.auth_method = "oauth2" /\ Truthy(a.oauth2_token)
    THEN {Entry("Authorization", <<"Bearer ", a.oauth2_token[1]>>)}
    ELSE {}

\* AuthConfig.get_query_params
get_query_params(a) ==
    IF a.auth_method = "api_key_query" /\ Truthy(a.api_key)
    THEN {Entry("api_key", <<a.api_key[1]>>)}
    ELSE {}

\* is_configured that is satisfied by any secret.
is_configured_any_secret(a) ==
    Truthy(a.api_key) \/ Truthy(a.bearer_token) \/ Truthy(a.oauth2_token)

\* AuthConfig.is_configured
is_configured(a) ==
    IF a.auth_method = "api_key_header" THEN Truthy(a.api_key)
    ELSE IF a.auth_method = "api_key_query" THEN Truthy(a.api_key)
    ELSE IF a.auth_method = "http_bearer" THEN Truthy(a.bearer_token)
    ELSE IF a.auth_method = "oauth2" THEN Truthy(a.oauth2_token)
    ELSE FALSE

\* A place of the heap that holds no object.
NoClient ==
    [config |-> DefaultConfig,
     auth_config |-> AuthConfig(DefaultConfig),
     limit |-> 0, permits |-> 0, waiting |-> 0, http |-> "none", live |-> FALSE]

\* A client whose credentials are those of the default configuration.
LNbitsClientWithDefaultAuth(config) ==
    [config |-> config,
     auth_config |-> AuthConfig(DefaultConfig),
     limit |-> config.rate_limit_per_minute,
     permits |-> config.rate_limit_per_minute,
     waiting |-> 0,
     http |-> "none",
     live |-> TRUE]

\* LNbitsClient.__init__: the client keeps the configuration object it was
\* given, copies the credentials out of it, has no HTTP connection yet and
\* builds a semaphore of its own; waiting counts the requests suspended on
\* that semaphore.
LNbitsClient(config) ==
    [config |-> config,
     auth_config |-> AuthConfig(config),
     limit |-> config.rate_limit_per_minute,
     permits |-> config.rate_limit_per_minute,
     waiting |-> 0,
     http |-> "none",
     live |-> TRUE]

\* One client object for the whole process, handed to every manager.
get_client_module_singleton(m) ==
    IF m.client = None THEN [m EXCEPT !.client = Some(1)] ELSE m

\* The identity a newly built object gets: a place that holds none.
CanAllocate == \E c \in ClientIds : ~clients[c].live
NewClientId ==
    CHOOSE c \in ClientIds : ~clients[c].live /\ \A d \in 1..(c - 1) : clients[d].live

\* get_client: build a client only when none is cached.
get_client(m) ==
    IF m.client = None THEN [m EXCEPT !.client = Some(NewClientId)]
    ELSE m

\* The heap after get_client on m.
ClientsAfterGetClient(m) ==
    IF m.client = None
    THEN [clients EXCEPT ![get_client(m).client[1]] = LNbitsClient(m.config)]
    ELSE clients

\* Reference counting: an object lives while a manager caches it or a
\* request that runs on it is suspended; when the last reference goes
\* the object is freed, whatever state its HTTP connection is in.
Referenced(c, heap, managers) ==
    \/ \E s \in Ids : managers[s].client = Some(c)
    \/ heap[c].waiting > 0
    \/ heap[c].permits < heap[c].limit
Collected(heap, managers) ==
    [c \in ClientIds |->
        IF heap[c].live /\ ~Referenced(c, heap, managers) THEN NoClient ELSE heap[c]]

\* hasattr(self._client, 'close'): LNbitsClient defines no close method.
HasClose == FALSE

\* "if self._client: if hasattr(self._client, 'close'): await
\* self._client.close()" of update_configuration and of close: the heap
\* after it.
ClientsAfterClose(m) ==
    IF m.client # None /\ HasClose
    THEN [clients EXCEPT ![m.client[1]].http = IF @ = "open" THEN "closed" ELSE @]
    ELSE clients

\* The state of the HTTP connection of the client that m caches, once m has
\* let go of it.
LetGo(m) == IF m.client = None THEN "" ELSE ClientsAfterClose(m)[m.client[1]].http

\* LNbitsClient._ensure_client: open the HTTP connection if there is none.
_ensure_client(c) == [c EXCEPT !.http = IF @ = "none" THEN "open" ELSE @]

\* A config_dict built from the arguments alone: a field that was not
\* supplied falls back to its default.
MergedDictFromArguments(config, req) ==
    [lnbits_url |-> IF req.lnbits_url # None THEN req.lnbits_url[1] ELSE DefaultUrl,
     api_key |-> req.api_key,
     bearer_token |-> req.bearer_token,
     oauth2_token |-> req.oauth2_token,
     auth_method |-> IF req.auth_method # None THEN req.auth_method[1] ELSE "api_key_header",
     timeout |-> IF req.timeout # None THEN req.timeout[1] ELSE DefaultTimeout,
     max_retries |-> DefaultMaxRetries,
     rate_limit_per_minute |->
        IF req.rate_limit_per_minute # None THEN req.rate_limit_per_minute[1]
        ELSE DefaultRateLimit]

\* config_dict of update_configuration: model_dump() overwritten with the
\* arguments that are not None.
MergedDict(config, req) ==
    [lnbits_url |-> IF req.lnbits_url # None THEN req.lnbits_url[1] ELSE config.lnbits_url,
     api_key |-> IF req.api_key # None THEN req.api_key ELSE config.api_key,
     bearer_token |-> IF req.bearer_token # None THEN req.bearer_token ELSE config.bearer_token,
     oauth2_token |-> IF req.oauth2_token # None THEN req.oauth2_token ELSE config.oauth2_token,
     auth_method |-> IF req.auth_method # None THEN req.auth_method[1] ELSE config.auth_method,
     timeout |-> IF req.timeout # None THEN req.timeout[1] ELSE config.timeout,
     max_retries |-> config.max_retries,
     rate_limit_per_minute |->
        IF req.rate_limit_per_minute # None THEN req.rate_limit_per_minute[1]
        ELSE config.rate_limit_per_minute]

MaskSecret(opt) == IF Truthy(opt) THEN Some(MASKED) ELSE opt

\* A masking that forgets the two token fields.
_get_safe_config_dict_api_key_only(config) ==
    [config EXCEPT !.lnbits_url = UrlStr(@), !.api_key = MaskSecret(@)]

\* _get_safe_config_dict
_get_safe_config_dict(config) ==
    [config EXCEPT !.lnbits_url = UrlStr(@),
                   !.api_key = MaskSecret(@),
                   !.bearer_token = MaskSecret(@),
                   !.oauth2_token = MaskSecret(@)]

\* get_configuration_status
get_configuration_status(m) ==
    [is_configured |-> m.is_configured, config |-> _get_safe_config_dict(m.config)]

NoStatus == [is_configured |-> FALSE, config |-> DefaultConfig]

\* An update that replaces the configuration and keeps the cached client.
update_configuration_keeping_client(m, req) ==
    LET config_dict == MergedDict(m.config, req)
    IN  IF ConfigValidates(config_dict)
        THEN LET m2 == [config |-> LNbitsConfig(config_dict), client |-> m.client,
                        is_configured |-> TRUE]
             IN  [m |-> m2, raised |-> FALSE, config |-> _get_safe_config_dict(m2.config)]
        ELSE [m |-> m, raised |-> TRUE, config |-> NoStatus.config]

\* An update that returns at once, changing nothing, when no field is
\* supplied.
update_configuration_skipping_empty(m, req) ==
    LET config_dict == MergedDict(m.config, req)
    IN  IF req = NoRequest
        THEN [m |-> m, raised |-> FALSE, config |-> _get_safe_config_dict(m.config)]
        ELSE IF ConfigValidates(config_dict)
        THEN LET m2 == [config |-> LNbitsConfig(config_dict), client |-> None,
                        is_configured |-> TRUE]
             IN  [m |-> m2, raised |-> FALSE, config |-> _get_safe_config_dict(m2.config)]
        ELSE [m |-> m, raised |-> TRUE, config |-> NoStatus.config]

\* An update that assigns the merged fields and does not roll back when
\* validation fails.
update_configuration_no_rollback(m, req) ==
    LET config_dict == MergedDict(m.config, req)
    IN  IF ConfigValidates(config_dict)
        THEN LET m2 == [config |-> LNbitsConfig(config_dict), client |-> None,
                        is_configured |-> TRUE]
             IN  [m |-> m2, raised |-> FALSE, config |-> _get_safe_config_dict(m2.config)]
        ELSE [m |-> [m EXCEPT !.config = config_dict],
              raised |-> TRUE,
              config |-> NoStatus.config]

\* update_configuration: the manager after the call, whether it raised,
\* and the "config" entry of the dictionary it returned.
update_configuration(m, req) ==
    LET original_config == m.config
        config_dict == MergedDict(m.config, req)
    IN  IF ConfigValidates(config_dict)
        THEN LET new_config == LNbitsConfig(config_dict)
                 m2 == [config |-> new_config, client |-> None, is_configured |-> TRUE]
             IN  [m |-> m2, raised |-> FALSE, config |-> _get_safe_config_dict(m2.config)]
        ELSE [m |-> [m EXCEPT !.config = original_config],
              raised |-> TRUE,
              config |-> NoStatus.config]

\* A close that also forgets that the manager was configured at run time.
close_unconfiguring(m) == [m EXCEPT !.client = None, !.is_configured = FALSE]

\* close
close(m) == [m EXCEPT !.client = None]

\* A test that marks the manager as configured when the wallet call
\* succeeds.
test_configuration_marking_configured(m, walletOk) ==
    IF m.client = None /\ ~ClientConstructs(m.config)
    THEN [m |-> m, clients |-> clients, outcome |-> "failure"]
    ELSE LET id == get_client(m).client[1]
             heap == ClientsAfterGetClient(m)
             ok == heap[id].permits # 0 /\ walletOk
         IN  [m |-> [get_client(m) EXCEPT !.is_configured = @ \/ ok],
              clients |-> [heap EXCEPT ![id] = _ensure_client(@)],
              outcome |-> IF heap[id].permits = 0 THEN "blocked"
                          ELSE IF walletOk THEN "success" ELSE "failure"]

\* test_configuration: get_client, then one wallet call whose outcome is the
\* network's; every exception (the ValueError of the client's constructor
\* included) is caught and reported as success = False. With a rate limit
\* of 0 the wallet call waits for a permit that never comes.
test_configuration(m, walletOk) ==
    IF m.client = None /\ ~ClientConstructs(m.config)
    THEN [m |-> m, clients |-> clients, outcome |-> "failure"]
    ELSE LET id == get_client(m).client[1]
             heap == ClientsAfterGetClient(m)
         IN  [m |-> get_client(m),
              clients |-> [heap EXCEPT ![id] = _ensure_client(@)],
              outcome |-> IF heap[id].permits = 0 THEN "blocked"
                          ELSE IF walletOk THEN "success" ELSE "failure"]

---------------------------------------------------------------------------
(* ConfigTools *)

\* A request model that accepts any integer for timeout and
\* rate_limit_per_minute.
ConfigureLNbitsRequest_unbounded(arguments, extra) ==
    [valid |-> /\ ~extra
               /\ arguments.lnbits_url # None => ValidHttpUrl(arguments.lnbits_url[1])
               /\ arguments.auth_method # None => arguments.auth_method[1] \in AuthMethod,
     request |-> arguments]

\* ConfigureLNbitsRequest(**arguments): whether the model validates (no
\* unknown key, a well-formed URL, one of the four auth methods, timeout
\* and rate limit in range), and the request it holds.
ConfigureLNbitsRequest(arguments, extra) ==
    [valid |-> /\ ~extra
               /\ arguments.lnbits_url # None => ValidHttpUrl(arguments.lnbits_url[1])
               /\ arguments.auth_method # None => arguments.auth_method[1] \in AuthMethod
               /\ arguments.timeout # None =>
                     arguments.timeout[1] \in MinTimeout..MaxTimeout
               /\ arguments.rate_limit_per_minute # None =>
                     arguments.rate_limit_per_minute[1] \in MinRateLimit..MaxRateLimit,
     request |-> arguments]

\* _configure_lnbits: validate the arguments, hand the validated fields to
\* update_configuration with the URL as the text of the parsed URL, and turn
\* every exception into an error text.
_configure_lnbits(m, arguments, extra) ==
    LET config_request == ConfigureLNbitsRequest(arguments, extra) IN
    IF ~config_request.valid
    THEN [m |-> m, raised |-> FALSE, text |-> "Configuration error", updated |-> FALSE]
    ELSE LET req == [config_request.request EXCEPT
                        !.lnbits_url = IF @ # None THEN Some(UrlStr(HttpUrl(@[1])))
                                       ELSE None]
             result == update_configuration(m, req)
         IN  IF result.raised
             THEN [m |-> result.m, raised |-> FALSE, text |-> "Configuration error",
                   updated |-> FALSE]
             ELSE [m |-> result.m, raised |-> FALSE,
                   text |-> "LNbits configuration updated successfully",
                   updated |-> TRUE]

---------------------------------------------------------------------------
(* Network responses *)

\* What a GET or POST came back with: a transport failure (an exception of
\* the HTTP library), or a status and a body; the body is JSON or not, and a
\* JSON body has some keys and, under its callback or pr key, a text.
NoResponse == [transport |-> FALSE, status |-> 0, json |-> FALSE, keys |-> {}, text |-> ""]
TransportFailure == [NoResponse EXCEPT !.transport = TRUE]

HttpResponses(keySet, texts) ==
    [transport : {FALSE}, status : {200, 404}, json : BOOLEAN,
     keys : SUBSET keySet, text : texts]

DiscoveryResponses ==
    {TransportFailure}
    \cup HttpResponses({"callback", "minSendable", "maxSendable"}, {"https://x/cb", ""})

CallbackResponses ==
    {TransportFailure} \cup HttpResponses({"pr", "reason"}, {"lnbc1", ""})

PaymentResponses ==
    {TransportFailure}
    \cup [transport : {FALSE}, status : {200, 201, 400, 500}, json : {TRUE},
          keys : {{}}, text : {""}]

---------------------------------------------------------------------------
(* SessionTools and SessionManager *)

\* Every session bound to one manager shared by all.
SharedManager(s) == 1

\* SessionTools.__init__: every session builds a RuntimeConfigManager of its
\* own; a manager is named by the id of the session that owns it.
ManagerOf(s) == s

\* An expiry test that is one tick late.
is_expired_late(s) == age[s] > TimeoutTicks + 1

\* SessionTools.is_expired: utcnow() > last_accessed + timeout
is_expired(s) == age[s] > TimeoutTicks

\* The ids of the map in insertion order (ids are handed out in ascending
\* order) that satisfy P.
RECURSIVE IdsInOrder(_, _)
IdsInOrder(i, S) ==
    IF i > MaxSessions THEN <<>>
    ELSE IF i \in S THEN <<i>> \o IdsInOrder(i + 1, S)
    ELSE IdsInOrder(i + 1, S)

\* The record of an operation: its name, the session id it was given, the
\* request it carried, whether it raised, the status dictionary it returned,
\* the id it returned, the manager and the idle time it found, and the
\* state of the HTTP connection of the client it let go of, if it did,
\* whether its arguments held an unknown key, and whether the wallet call
\* it made succeeded, and whether the close of the teardown it ran raised.
Op(name, sid) ==
    [op |-> name, sid |-> sid, req |-> NoRequest, raised |-> FALSE,
     out |-> NoStatus, ret |-> 0, pre |-> RuntimeConfigManager(DefaultConfig),
     idle |-> 0, outcome |-> "", dropped |-> "", extra |-> FALSE, walletOk |-> FALSE,
     failed |-> FALSE]

\* A request that has not ended.
NoOutcome ==
    [response |-> NoResponse, exit |-> "", raised |-> "", status_code |-> None,
     attempts |-> 0, message |-> <<>>]

\* No payment and no request under way.
NoPay ==
    [pc |-> "idle", address |-> <<>>, amount_sats |-> 0, comment |-> None,
     discovery |-> NoResponse, callback |-> NoResponse,
     callback_url |-> None, invoice |-> None, log |-> <<>>, error |-> ""]

ClientIdle ==
    /\ pay = NoPay
    /\ limit = 0
    /\ permits = 0
    /\ reqPc = [r \in Reqs |-> "idle"]
    /\ reqOut = [r \in Reqs |-> NoOutcome]

\* No AuthConfig under test.
NoAuth ==
    [config |-> AuthConfig(DefaultConfig), headers |-> None, params |-> None,
     is_configured |-> None]

\* A slot that holds no task. A task belongs to the SessionManager that
\* created it; managers are numbered in the order get_session_manager
\* builds them.
NoTask == [pc |-> "none", cancel |-> FALSE, list |-> <<>>, owner |-> 0]

\* asyncio.create_task(self._cleanup_expired_sessions()): the task is
\* scheduled and has not run yet.
NewTask == [NoTask EXCEPT !.pc = "new"]

LockNames == {"registry", "sessions", "config"}

\* The module before get_session_manager was first called: no manager, no
\* task, no cleanup under way, every lock free.
NoLife ==
    [manager |-> FALSE,
     generation |-> 0,
     tasks |-> [t \in TaskIds |-> NoTask],
     cleanup_task |-> None,
     pc |-> "idle",
     session_ids |-> <<>>,
     called_with |-> {},
     awaits |-> None,
     stoppers |-> {},
     locks |-> [l \in LockNames |-> 0]]

\* The module once get_session_manager has built the manager and its
\* cleanup task sleeps.
LifeStarted ==
    [NoLife EXCEPT !.manager = TRUE,
                   !.generation = 1,
                   !.tasks = [t \in TaskIds |->
                                IF t = 1 THEN [NoTask EXCEPT !.pc = "sleep", !.owner = 1]
                                ELSE NoTask],
                   !.cleanup_task = Some(1)]

\* No tool call is under way.
NoCalls == [i \in Ids |-> None]

AuxIdle ==
    /\ auth = NoAuth
    /\ life = LifeStarted
    /\ calls = NoCalls

\* The state a SessionManager is in once get_session_manager has built it
\* and started its cleanup task.
Init ==
    /\ sessions = {}
    /\ nextId = 0
    /\ mgr = [i \in Ids |-> RuntimeConfigManager(DefaultConfig)]
    /\ clients = [c \in ClientIds |-> NoClient]
    /\ age = [i \in Ids |-> 0]
    /\ sweepPc = "sleep"
    /\ sweepList = <<>>
    /\ shutdown = FALSE
    /\ updates = 0
    /\ scanned = {}
    /\ last = Op("init", 0)
    /\ ClientIdle
    /\ AuxIdle

\* SessionManager.create_session (config = None)
CreateSession ==
    /\ nextId < MaxSessions
    /\ LET id == nextId + 1 IN
        /\ nextId' = id
        /\ sessions' = sessions \cup {id}
        /\ mgr' = [mgr EXCEPT ![ManagerOf(id)] = RuntimeConfigManager(DefaultConfig)]
        /\ age' = [age EXCEPT ![id] = 0]
        /\ last' = [Op("create_session", 0) EXCEPT !.ret = id]
    /\ UNCHANGED <<clients, sweepPc, sweepList, shutdown, updates, scanned>>
    /\ UNCHANGED <<clientVars, auxVars>>

\* A lookup that leaves the time of the last access as it was.
update_last_accessed_skipped(idle) == idle

\* SessionTools.update_last_accessed: last_accessed = utcnow(), so the
\* session has been idle for no time.
update_last_accessed(idle) == 0

\* SessionManager.get_session
GetSession(id) ==
    /\ age' = IF id \in sessions THEN [age EXCEPT ![id] = update_last_accessed(@)]
              ELSE age
    /\ last' = [Op("get_session", id) EXCEPT
                    !.ret = IF id \in sessions THEN id ELSE 0,
                    !.idle = age[id]]
    /\ UNCHANGED <<clients, sessions, nextId, mgr, sweepPc, sweepList, shutdown, updates, scanned>>
    /\ UNCHANGED <<clientVars, auxVars>>

\* A lookup that serves a caller without an id from a session of the map.
get_session_tools_reusing(arg) ==
    IF arg \in sessions THEN [id |-> arg, created |-> FALSE]
    ELSE IF arg = 0 /\ sessions # {}
         THEN [id |-> CHOOSE s \in sessions : TRUE, created |-> FALSE]
    ELSE [id |-> nextId + 1, created |-> TRUE]

\* get_session_tools: the session it hands back and whether it created it.
\* The argument 0 stands for no session id.
get_session_tools(arg) ==
    IF arg = 0 THEN [id |-> nextId + 1, created |-> TRUE]
    ELSE IF arg \in sessions THEN [id |-> arg, created |-> FALSE]
    ELSE [id |-> nextId + 1, created |-> TRUE]

GetSessionTools(arg) ==
    LET r == get_session_tools(arg) IN
    /\ r.created => nextId < MaxSessions
    /\ nextId' = IF r.created THEN r.id ELSE nextId
    /\ sessions' = IF r.created THEN sessions \cup {r.id} ELSE sessions
    /\ mgr' = IF r.created
              THEN [mgr EXCEPT ![ManagerOf(r.id)] = RuntimeConfigManager(DefaultConfig)]
              ELSE mgr
    /\ age' = [age EXCEPT ![r.id] = 0]
    /\ last' = [Op("get_session_tools", arg) EXCEPT !.ret = r.id]
    /\ UNCHANGED <<clients, sweepPc, sweepList, shutdown, updates, scanned>>
    /\ UNCHANGED <<clientVars, auxVars>>

\* RuntimeConfigManager.update_configuration on the manager of session s
UpdateConfiguration(s, R) ==
    /\ s \in sessions
    /\ updates < MaxUpdates
    /\ \E req \in R :
        LET r == update_configuration(mgr[ManagerOf(s)], req) IN
        /\ mgr' = [mgr EXCEPT ![ManagerOf(s)] = r.m]
        /\ last' = [Op("update_configuration", s) EXCEPT
                        !.req = req, !.raised = r.raised,
                        !.out = [is_configured |-> r.m.is_configured, config |-> r.config],
                        !.pre = mgr[ManagerOf(s)],
                        !.dropped = IF r.m.client = None
                                    THEN LetGo(mgr[ManagerOf(s)]) ELSE ""]
        /\ clients' = IF r.raised THEN clients
                       ELSE Collected(ClientsAfterClose(mgr[ManagerOf(s)]),
                                      [mgr EXCEPT ![ManagerOf(s)] = r.m])
    /\ updates' = updates + 1
    /\ UNCHANGED <<sessions, nextId, age, sweepPc, sweepList, shutdown, scanned>>
    /\ UNCHANGED <<clientVars, auxVars>>

\* RuntimeConfigManager.get_configuration_status on the manager of session s
GetConfigurationStatus(s) ==
    /\ s \in sessions
    /\ last' = [Op("get_configuration_status", s) EXCEPT
                    !.out = get_configuration_status(mgr[ManagerOf(s)]),
                    !.pre = mgr[ManagerOf(s)]]
    /\ UNCHANGED <<clients, sessions, nextId, mgr, age, sweepPc, sweepList, shutdown, updates, scanned>>
    /\ UNCHANGED <<clientVars, auxVars>>

\* RuntimeConfigManager.test_configuration on the manager of session s
TestConfiguration(s) ==
    /\ s \in sessions
    /\ mgr[ManagerOf(s)].client = None => CanAllocate
    /\ \E walletOk \in BOOLEAN :
        LET r == test_configuration(mgr[ManagerOf(s)], walletOk) IN
        /\ mgr' = [mgr EXCEPT ![ManagerOf(s)] = r.m]
        /\ clients' = r.clients
        /\ last' = [Op("test_configuration", s) EXCEPT
                        !.outcome = r.outcome, !.pre = mgr[ManagerOf(s)],
                        !.walletOk = walletOk]
    /\ UNCHANGED <<sessions, nextId, age, sweepPc, sweepList, shutdown, updates, scanned>>
    /\ UNCHANGED <<clientVars, auxVars>>

\* A removal that reports success whatever it finds.
remove_session_always_true(id) == TRUE

\* remove_session returns True when the pop found a session under the id.
remove_session(id) == id \in sessions

\* A teardown that lets the exception of close escape.
cleanup_propagating(m, fails) ==
    [m |-> IF fails THEN m ELSE close(m), raised |-> fails]

\* SessionTools.cleanup: await config_manager.close() inside try/except
\* Exception, which logs. When close raises, it has not reached
\* "_client = None"; nothing escapes either way.
cleanup(m, fails) ==
    [m |-> IF fails THEN m ELSE close(m), raised |-> FALSE]

\* SessionManager.remove_session: pop the id, and tear the session down if
\* it was there; fails tells whether the close of the teardown raises.
PopAndCleanup(id, fails) ==
    LET after == [mgr EXCEPT ![ManagerOf(id)] = cleanup(@, fails).m] IN
    /\ sessions' = sessions \ {id}
    /\ mgr' = IF id \in sessions THEN after ELSE mgr
    /\ clients' = IF id \in sessions
                   THEN Collected(IF fails THEN clients
                                  ELSE ClientsAfterClose(mgr[ManagerOf(id)]), after)
                   ELSE clients
    /\ age' = [age EXCEPT ![id] = 0]

\* remove_session when close does not raise.
RemoveFromMap(id) == PopAndCleanup(id, FALSE)

RemoveSession(id) ==
    /\ RemoveFromMap(id)
    /\ last' = [Op("remove_session", id) EXCEPT
                    !.ret = IF remove_session(id) THEN id ELSE 0,
                    !.outcome = IF id \in sessions THEN "cleanup" ELSE "",
                    !.idle = age[id],
                    !.dropped = IF id \in sessions THEN LetGo(mgr[ManagerOf(id)]) ELSE ""]
    /\ UNCHANGED <<nextId, sweepPc, sweepList, shutdown, updates, scanned>>
    /\ UNCHANGED <<clientVars, auxVars>>

\* The clock: every live session's idle time grows by one tick.
Tick ==
    /\ age' = [i \in Ids |->
                 IF i \in sessions /\ age[i] <= TimeoutTicks THEN age[i] + 1 ELSE age[i]]
    /\ last' = Op("tick", 0)
    /\ UNCHANGED <<clients, sessions, nextId, mgr, sweepPc, sweepList, shutdown, updates, scanned>>
    /\ UNCHANGED <<clientVars, auxVars>>

\* _remove_expired_sessions, first half: under the lock, collect the ids of
\* the sessions that are expired.
SweepScan ==
    /\ sweepPc = "sleep"
    /\ ~shutdown
    /\ LET expired_sessions == IdsInOrder(1, {s \in sessions : is_expired(s)}) IN
        /\ sweepList' = expired_sessions
        /\ sweepPc' = IF expired_sessions = <<>> THEN "sleep" ELSE "removing"
    /\ last' = Op("sweep_scan", 0)
    /\ scanned' = {s \in sessions : age[s] > TimeoutTicks}
    /\ UNCHANGED <<clients, sessions, nextId, mgr, age, shutdown, updates>>
    /\ UNCHANGED <<clientVars, auxVars>>

\* _remove_expired_sessions, second half: await remove_session for the next
\* collected id; the lock is not held between the scan and a removal.
SweepRemove ==
    /\ sweepPc = "removing"
    /\ \E fails \in BOOLEAN :
        LET id == Head(sweepList)
            escapes == id \in sessions /\ cleanup(mgr[ManagerOf(id)], fails).raised
        IN
        /\ id \notin sessions => ~fails
        /\ PopAndCleanup(id, fails)
        /\ last' = [Op("sweep_remove", id) EXCEPT
                        !.ret = IF remove_session(id) /\ ~escapes THEN id ELSE 0,
                        !.outcome = IF id \in sessions THEN "cleanup" ELSE "",
                        !.idle = age[id],
                        !.failed = fails,
                        !.raised = escapes,
                        !.dropped = IF id \in sessions /\ ~fails
                                    THEN LetGo(mgr[ManagerOf(id)]) ELSE ""]
        \* An exception that escapes _remove_expired_sessions is logged by
        \* the loop, which goes back to sleep with the rest of the ids
        \* left where they are.
        /\ sweepList' = IF escapes THEN <<>> ELSE Tail(sweepList)
        /\ sweepPc' = IF escapes \/ Tail(sweepList) = <<>> THEN "sleep" ELSE "removing"
    /\ UNCHANGED <<nextId, shutdown, updates, scanned>>
    /\ UNCHANGED <<clientVars, auxVars>>

\* stop_cleanup_task: set the shutdown flag and cancel the task, which ends
\* at the await it is suspended in.
StopCleanupTask ==
    /\ ~shutdown
    /\ shutdown' = TRUE
    /\ sweepPc' = "cancelled"
    /\ sweepList' = <<>>
    /\ last' = Op("stop_cleanup_task", 0)
    /\ UNCHANGED <<clients, sessions, nextId, mgr, age, updates, scanned>>
    /\ UNCHANGED <<clientVars, auxVars>>

Next ==
    \/ CreateSession
    \/ \E id \in Ids : GetSession(id)
    \/ \E arg \in {0} \cup Ids : GetSessionTools(arg)
    \/ \E s \in Ids : UpdateConfiguration(s, SessionRequests)
    \/ \E s \in Ids : GetConfigurationStatus(s)
    \/ \E s \in Ids : TestConfiguration(s)
    \/ \E id \in Ids : RemoveSession(id)

Spec == Init /\ [][Next]_vars

---------------------------------------------------------------------------
(* The registry with its clock and its cleanup task *)

NextSweep ==
    \/ CreateSession
    \/ \E id \in Ids : GetSession(id)
    \/ \E arg \in {0} \cup Ids : GetSessionTools(arg)
    \/ \E id \in Ids : RemoveSession(id)
    \/ Tick
    \/ SweepScan
    \/ SweepRemove
    \/ StopCleanupTask

SpecSweep == Init /\ [][NextSweep]_vars

\* The event loop runs the cleanup task whenever it can take a step, and
\* time passes.
LiveSweep ==
    /\ SpecSweep
    /\ WF_vars(Tick)
    /\ WF_vars(SweepScan)
    /\ WF_vars(SweepRemove)

---------------------------------------------------------------------------
(* Claims about the registry *)

ManagerOps == {"update_configuration", "get_configuration_status", "test_configuration"}

\* C1: a configuration call on one session never changes what
\* get_configuration_status reports for another session.
C1_SessionsIsolated ==
    [][\A b \in sessions :
         (last'.op \in ManagerOps /\ last'.sid # b) =>
            /\ b \in sessions'
            /\ get_configuration_status(mgr'[ManagerOf(b)])
                  = get_configuration_status(mgr[ManagerOf(b)])]_vars

\* Session 1 has just been updated while session 2 holds a configuration of
\* its own, set at run time.
C1_Witness ==
    /\ last.op = "update_configuration" /\ ~last.raised /\ last.sid = 1
    /\ 2 \in sessions
    /\ mgr[ManagerOf(2)].is_configured
    /\ mgr[ManagerOf(2)].config # mgr[ManagerOf(1)].config
    /\ mgr[ManagerOf(2)].config # DefaultConfig

\* C8: get_session_tools without a session id returns a session that it has
\* just created under an id never handed out before, with the default
\* configuration and not configured, and leaves every other session and its
\* manager as they were.
C8_NoIdGetsFreshSession ==
    [][(last'.op = "get_session_tools" /\ last'.sid = 0) =>
         /\ last'.ret \notin 0..nextId
         /\ last'.ret \in sessions'
         /\ mgr'[ManagerOf(last'.ret)] = RuntimeConfigManager(DefaultConfig)
         /\ \A s \in sessions :
              /\ s \in sessions'
              /\ s # last'.ret
              /\ mgr'[ManagerOf(s)] = mgr[ManagerOf(s)]]_vars

\* A call without an id served while another session holds a configuration
\* set at run time.
C8_Witness ==
    /\ last.op = "get_session_tools" /\ last.sid = 0
    /\ last.ret = 2
    /\ 1 \in sessions
    /\ mgr[ManagerOf(1)].is_configured
    /\ mgr[ManagerOf(1)].config.api_key = Some("k1")

Touched(i) == last.op \in {"get_session", "get_session_tools"} /\ last.ret = i

\* C10: once a sweep cycle has completed, no session whose idle time
\* exceeded the timeout at its scan is left in the map; and while the
\* cleanup task runs, a session that is not looked up again is eventually
\* removed.
C10_IdleSessionsAreRemoved ==
    /\ [](sweepPc = "sleep" => scanned \cap sessions = {})
    /\ \A i \in Ids :
          [](i \in sessions => <>(i \notin sessions \/ Touched(i) \/ shutdown))

\* A sweep cycle has completed by removing session 1, idle beyond the
\* timeout, and has left session 2, which was not.
C10_Witness ==
    /\ last.op = "sweep_remove" /\ last.ret = 1 /\ last.idle > TimeoutTicks
    /\ sweepPc = "sleep"
    /\ scanned = {1}
    /\ sessions = {2}
    /\ ~shutdown

Removals == {"remove_session", "sweep_remove"}

\* C20: a removal, explicit or by the sweep, returns true exactly when the
\* id is in the map, and exactly then tears the session down; it leaves the
\* id out of the map and every other session as it was. An id that has
\* left the map never comes back, so of the removals of one id one returns
\* true and one teardown runs, and get_session finds an id only while it is
\* in the map.
C20_RemovalSucceedsOnce ==
    /\ [][last'.op \in Removals =>
            /\ last'.ret # 0 <=> last'.sid \in sessions
            /\ last'.outcome = "cleanup" <=> last'.sid \in sessions
            /\ sessions' = sessions \ {last'.sid}
            /\ \A o \in sessions' :
                  mgr'[ManagerOf(o)] = mgr[ManagerOf(o)] /\ age'[o] = age[o]]_vars
    /\ [][\A id \in Ids : (id <= nextId /\ id \notin sessions) => id \notin sessions']_vars
    /\ [][last'.op = "get_session" => (last'.ret # 0 <=> last'.sid \in sessions)]_vars

\* The sweep collected session 1 at its scan, an explicit remove_session
\* took it first, and the sweep's removal of the same id has returned false
\* while session 2 is still in the map.
C20_Witness ==
    /\ last.op = "sweep_remove" /\ last.sid = 1
    /\ last.ret = 0 /\ last.outcome = ""
    /\ 1 \in scanned
    /\ sessions = {2}

---------------------------------------------------------------------------
(* LNbitsClient: paying a lightning address *)

\* An address is a sequence of characters.
AddressInputs ==
    {<<"u", "@", "x", ".", "c">>,
     <<"u", "@", "s", ".", "x", ".", "c">>,
     <<"n", "o">>,
     <<"a", "@", "b">>,
     <<"a", "@", "b", "@", "x", ".", "c">>,
     <<"@", "x", ".", "c">>,
     <<"u", "@", ".", "c">>,
     <<"u", "@", "x", ".">>}
AmountInputs == {0, 5}
CommentInputs == {None, Some(""), Some("hi")}

AtPositions(a) == {i \in 1..Len(a) : a[i] = "@"}

\* A format check that asks for one "@" between two texts and for no dot.
MatchesAddressWithoutDot(a) ==
    /\ Cardinality(AtPositions(a)) = 1
    /\ LET at == CHOOSE i \in AtPositions(a) : TRUE IN at > 1 /\ at < Len(a)

\* re.match(r"^[^@]+@[^@]+\.[^@]+$", a): one "@" with text before it, and
\* after it a dot with text on both sides.
MatchesAddress(a) ==
    /\ Cardinality(AtPositions(a)) = 1
    /\ LET at == CHOOSE i \in AtPositions(a) : TRUE IN
        /\ at > 1
        /\ \E j \in (at + 2)..(Len(a) - 1) : a[j] = "."

\* lightning_address.split("@")
AddressUser(a) == SubSeq(a, 1, (CHOOSE i \in AtPositions(a) : TRUE) - 1)
AddressDomain(a) == SubSeq(a, (CHOOSE i \in AtPositions(a) : TRUE) + 1, Len(a))

\* A network call: which call it is, where it goes and what it carries.
NetCall(kind) ==
    [kind |-> kind, user |-> <<>>, domain |-> <<>>, url |-> "", amount |-> None,
     comment |-> None, bolt11 |-> ""]

\* A discovery reader that asks for the callback key alone.
resolve_lightning_address_callback_only(resp) ==
    IF resp.transport THEN None
    ELSE IF resp.status # 200 THEN None
    ELSE IF ~resp.json THEN None
    ELSE IF "callback" \notin resp.keys THEN None
    ELSE Some(resp.text)

\* resolve_lightning_address, after the GET: the callback, or None. The
\* exception of a transport failure and that of a body that is not JSON
\* are caught and give None.
resolve_lightning_address(resp) ==
    IF resp.transport THEN None
    ELSE IF resp.status # 200 THEN None
    ELSE IF ~resp.json THEN None
    ELSE IF ~({"callback", "minSendable", "maxSendable"} \subseteq resp.keys) THEN None
    ELSE Some(resp.text)

\* A callback reader that does not look for the reason key.
get_lnurl_pay_invoice_ignoring_reason(resp) ==
    IF resp.transport THEN None
    ELSE IF resp.status # 200 THEN None
    ELSE IF ~resp.json THEN None
    ELSE IF "pr" \notin resp.keys THEN None
    ELSE Some(resp.text)

\* A callback reader that does not look at the status.
get_lnurl_pay_invoice_any_status(resp) ==
    IF resp.transport THEN None
    ELSE IF ~resp.json THEN None
    ELSE IF "reason" \in resp.keys THEN None
    ELSE IF "pr" \notin resp.keys THEN None
    ELSE Some(resp.text)

\* get_lnurl_pay_invoice, after the GET: the invoice, or None. The
\* exception of a transport failure and that of a body that is not JSON
\* are caught and give None.
get_lnurl_pay_invoice(resp) ==
    IF resp.transport THEN None
    ELSE IF resp.status # 200 THEN None
    ELSE IF ~resp.json THEN None
    ELSE IF "reason" \in resp.keys THEN None
    ELSE IF "pr" \notin resp.keys THEN None
    ELSE Some(resp.text)

\* pay_lightning_address up to its first await: resolve_lightning_address
\* checks the format and raises, or issues the discovery GET.
PayStart ==
    /\ pay.pc = "idle"
    /\ \E a \in AddressInputs, n \in AmountInputs, c \in CommentInputs :
        pay' = IF ~MatchesAddress(a)
               THEN [pay EXCEPT !.pc = "raised", !.address = a, !.amount_sats = n,
                                !.comment = c, !.error = "invalid_address"]
               ELSE [pay EXCEPT !.pc = "discovering", !.address = a, !.amount_sats = n,
                                !.comment = c,
                                !.log = Append(@, [NetCall("discovery") EXCEPT
                                                     !.user = AddressUser(a),
                                                     !.domain = AddressDomain(a)])]
    /\ UNCHANGED <<auxVars, registryVars, limit, permits, reqPc, reqOut>>

\* An amount passed on in satoshis.
amount_msats_unconverted(amount_sats) == amount_sats

\* amount_msats = amount_sats * 1000
amount_msats(amount_sats) == amount_sats * 1000

\* The discovery GET returns: raise if there is no callback, else issue the
\* callback GET with the amount in millisatoshis and the comment if truthy.
PayDiscovered ==
    /\ pay.pc = "discovering"
    /\ \E resp \in DiscoveryResponses :
        LET callback_url == resolve_lightning_address(resp) IN
        pay' = IF ~Truthy(callback_url)
               THEN [pay EXCEPT !.pc = "raised", !.discovery = resp,
                                !.callback_url = callback_url,
                                !.error = "resolve_failed"]
               ELSE [pay EXCEPT !.pc = "fetching", !.discovery = resp,
                                !.callback_url = callback_url,
                                !.log = Append(@, [NetCall("callback") EXCEPT
                                                     !.url = callback_url[1],
                                                     !.amount = Some(amount_msats(pay.amount_sats)),
                                                     !.comment = IF Truthy(pay.comment)
                                                                 THEN pay.comment ELSE None])]
    /\ UNCHANGED <<auxVars, registryVars, limit, permits, reqPc, reqOut>>

\* The callback GET returns: raise if there is no invoice, else pay_invoice
\* posts it, with the amount if it is not zero.
PayFetched ==
    /\ pay.pc = "fetching"
    /\ \E resp \in CallbackResponses :
        LET invoice == get_lnurl_pay_invoice(resp) IN
        pay' = IF ~Truthy(invoice)
               THEN [pay EXCEPT !.pc = "raised", !.callback = resp, !.invoice = invoice,
                                !.error = "invoice_failed"]
               ELSE [pay EXCEPT !.pc = "paying", !.callback = resp, !.invoice = invoice,
                                !.log = Append(@, [NetCall("payment") EXCEPT
                                                     !.bolt11 = invoice[1],
                                                     !.amount = IF pay.amount_sats # 0
                                                                THEN Some(pay.amount_sats)
                                                                ELSE None])]
    /\ UNCHANGED <<auxVars, registryVars, limit, permits, reqPc, reqOut>>

\* The payment POST returns: _request returns the body of a response below
\* 400 and raises otherwise.
PayCompleted ==
    /\ pay.pc = "paying"
    /\ \E resp \in PaymentResponses :
        pay' = IF resp.transport \/ resp.status >= 400
               THEN [pay EXCEPT !.pc = "raised", !.error = "payment_failed"]
               ELSE [pay EXCEPT !.pc = "returned"]
    /\ UNCHANGED <<auxVars, registryVars, limit, permits, reqPc, reqOut>>

InitPay ==
    /\ sessions = {}
    /\ nextId = 0
    /\ mgr = [i \in Ids |-> RuntimeConfigManager(DefaultConfig)]
    /\ clients = [c \in ClientIds |-> NoClient]
    /\ age = [i \in Ids |-> 0]
    /\ sweepPc = "sleep"
    /\ sweepList = <<>>
    /\ shutdown = FALSE
    /\ updates = 0
    /\ scanned = {}
    /\ last = Op("init", 0)
    /\ ClientIdle
    /\ AuxIdle

NextPay ==
    \/ PayStart
    \/ PayDiscovered
    \/ PayFetched
    \/ PayCompleted

SpecPay == InitPay /\ [][NextPay]_vars

---------------------------------------------------------------------------
(* LNbitsClient: the rate limiter of _request *)

\* A limiter that lets a request in whatever its value.
CanAcquireAlways(value) == TRUE

\* asyncio.Semaphore: a permit can be taken while the value is positive.
CanAcquire(value) == value > 0

InFlight == {r \in Reqs : reqPc[r] = "inflight"}

\* _request is called and reaches "async with self._rate_limiter".
RequestCalled(r) ==
    /\ reqPc[r] = "idle"
    /\ reqPc' = [reqPc EXCEPT ![r] = "waiting"]
    /\ UNCHANGED <<auxVars, registryVars, pay, limit, permits, reqOut>>

\* The request takes a permit and issues its HTTP call.
RequestAcquires(r) ==
    /\ reqPc[r] = "waiting"
    /\ CanAcquire(permits)
    /\ permits' = permits - 1
    /\ reqPc' = [reqPc EXCEPT ![r] = "inflight"]
    /\ UNCHANGED <<auxVars, registryVars, pay, limit, reqOut>>

\* What self.client.request may come back with: text is response.text,
\* the raw body; a JSON body is an object with or without a detail key.
RequestResponses ==
    {TransportFailure}
    \cup [transport : {FALSE}, status : {200, 302, 404, 500}, json : {FALSE},
          keys : {{}}, text : {"<html>"}]
    \cup [transport : {FALSE}, status : {200, 302, 404, 500}, json : {TRUE},
          keys : {{}}, text : {"{message}"}]
    \cup [transport : {FALSE}, status : {404}, json : {TRUE},
          keys : {{"detail"}}, text : {"{detail}"}]

\* error_detail['detail'] of a JSON body that has the key
DetailOf(resp) == "Wallet not found"

\* str(response.status_code) of the statuses of the model
StatusText(status) ==
    CASE status = 200 -> "200" [] status = 302 -> "302"
      [] status = 404 -> "404" [] status = 500 -> "500"

\* error_msg of _request for a status of 400 or more: the status, then the
\* detail if the body parses and has the key, the raw text if the body
\* does not parse, and nothing more if it parses without the key.
error_msg(resp) ==
    LET prefix == <<"API request failed: ", StatusText(resp.status)>> IN
    IF resp.json
    THEN IF "detail" \in resp.keys THEN prefix \o <<" - ", DetailOf(resp)>> ELSE prefix
    ELSE prefix \o <<" - ", resp.text>>

\* A _request that calls again after a transport failure, max_retries times.
_request_retrying(self, resp) ==
    IF resp.transport
    THEN [response |-> resp, exit |-> "transport_error", raised |-> "LNbitsError",
          status_code |-> None, attempts |-> 1 + self.config.max_retries,
          message |-> <<"Request failed: ">>]
    ELSE IF resp.status >= 400
    THEN [response |-> resp, exit |-> "http_error", raised |-> "LNbitsError",
          status_code |-> Some(resp.status), attempts |-> 1,
          message |-> error_msg(resp)]
    ELSE IF resp.json
    THEN [response |-> resp, exit |-> "returned", raised |-> "", status_code |-> None,
          attempts |-> 1, message |-> <<>>]
    ELSE [response |-> resp, exit |-> "bad_body", raised |-> "JSONDecodeError",
          status_code |-> None, attempts |-> 1, message |-> <<>>]

\* _request, after the HTTP call: how it ends (exit), the exception it
\* raises if any, the status code that exception carries, and the number
\* of times self.client.request was called.
\*   httpx.RequestError           -> LNbitsError without a status code
\*   status_code >= 400           -> LNbitsError with the status code
\*   otherwise response.json()    -> the body, or the decoder's exception
\* There is no loop: self.config.max_retries is not read.
_request(self, resp) ==
    IF resp.transport
    THEN [response |-> resp, exit |-> "transport_error", raised |-> "LNbitsError",
          status_code |-> None, attempts |-> 1, message |-> <<"Request failed: ">>]
    ELSE IF resp.status >= 400
    THEN [response |-> resp, exit |-> "http_error", raised |-> "LNbitsError",
          status_code |-> Some(resp.status), attempts |-> 1,
          message |-> error_msg(resp)]
    ELSE IF resp.json
    THEN [response |-> resp, exit |-> "returned", raised |-> "", status_code |-> None,
          attempts |-> 1, message |-> <<>>]
    ELSE [response |-> resp, exit |-> "bad_body", raised |-> "JSONDecodeError",
          status_code |-> None, attempts |-> 1, message |-> <<>>]

\* A semaphore whose release is lost.
release_lost(value) == value

\* asyncio.Semaphore.release, called when the "async with" block is left.
release(value) == value + 1

\* The HTTP call ends, with a body, an error status, a transport failure or
\* a body that is not JSON; leaving the "async with" releases the permit.
RequestCompletes(r) ==
    /\ reqPc[r] = "inflight"
    /\ permits' = release(permits)
    /\ \E resp \in RequestResponses :
        /\ reqPc' = [reqPc EXCEPT ![r] = _request(clients[1], resp).exit]
        /\ reqOut' = [reqOut EXCEPT ![r] = _request(clients[1], resp)]
    /\ UNCHANGED <<auxVars, registryVars, pay, limit>>

\* LNBITS_MAX_RETRIES of the environment: none, or the default.
RetryInputs == {0, DefaultMaxRetries}

\* The client under load is object 1 of the heap, built with any rate limit
\* from 0 to MaxLimit and either number of retries:
\* self._rate_limiter = asyncio.Semaphore(rate_limit_per_minute).
InitRate ==
    /\ sessions = {}
    /\ nextId = 0
    /\ mgr = [i \in Ids |-> RuntimeConfigManager(DefaultConfig)]
    /\ age = [i \in Ids |-> 0]
    /\ sweepPc = "sleep"
    /\ sweepList = <<>>
    /\ shutdown = FALSE
    /\ updates = 0
    /\ scanned = {}
    /\ last = Op("init", 0)
    /\ pay = NoPay
    /\ limit \in 0..MaxLimit
    /\ \E n \in RetryInputs :
        clients = [c \in ClientIds |->
                     IF c = 1
                     THEN LNbitsClient([DefaultConfig EXCEPT
                                            !.max_retries = n,
                                            !.rate_limit_per_minute = limit])
                     ELSE NoClient]
    /\ permits = limit
    /\ reqPc = [r \in Reqs |-> "idle"]
    /\ reqOut = [r \in Reqs |-> NoOutcome]
    /\ AuxIdle

NextRate ==
    \/ \E r \in Reqs : RequestCalled(r)
    \/ \E r \in Reqs : RequestAcquires(r)
    \/ \E r \in Reqs : RequestCompletes(r)

SpecRate == InitRate /\ [][NextRate]_vars

\* Every HTTP call in flight ends, with a response or with the timeout of
\* the HTTP library, and the semaphore wakes its waiters in the order they
\* came, so that a waiter is not passed over for ever.
LiveRate ==
    /\ SpecRate
    /\ \A r \in Reqs : WF_vars(RequestCompletes(r))
    /\ \A r \in Reqs : SF_vars(RequestAcquires(r))

---------------------------------------------------------------------------
(* Managers, their clients and the requests that run on them *)

\* The updates offered to a manager whose client is in use: a new API key,
\* a rate limit of one, an auth method that does not validate, and no field
\* at all.
ClientRequests ==
    {NoRequest,
     [NoRequest EXCEPT !.api_key = Some("k1")],
     [NoRequest EXCEPT !.rate_limit_per_minute = Some(1)],
     [NoRequest EXCEPT !.auth_method = Some("bogus")]}

Held(c) == c.waiting + (c.limit - c.permits)

\* RuntimeConfigManager.get_client on the manager of session s; the
\* constructor of the client raises for a negative rate limit.
GetClient(s) ==
    /\ s \in sessions
    /\ mgr[ManagerOf(s)].client = None => CanAllocate
    /\ LET m == mgr[ManagerOf(s)] IN
        IF m.client = None /\ ~ClientConstructs(m.config)
        THEN /\ last' = [Op("get_client", s) EXCEPT !.raised = TRUE, !.pre = m]
             /\ UNCHANGED <<mgr, clients>>
        ELSE /\ mgr' = [mgr EXCEPT ![ManagerOf(s)] = get_client(m)]
             /\ clients' = ClientsAfterGetClient(m)
             /\ last' = [Op("get_client", s) EXCEPT
                             !.ret = get_client(m).client[1], !.pre = m,
                             !.outcome = IF m.client = None THEN "built" ELSE "cached"]
    /\ UNCHANGED <<sessions, nextId, age, sweepPc, sweepList, shutdown, updates, scanned>>
    /\ UNCHANGED <<clientVars, auxVars>>

\* A tool of session s makes a call: get_client, then _request on the
\* client it was given, up to "async with self._rate_limiter":
\* _ensure_client opens the HTTP connection and the request queues at the
\* semaphore of that client.
ClientRequestStart(s) ==
    /\ s \in sessions
    /\ LET m == mgr[ManagerOf(s)] IN
        /\ m.client = None => (CanAllocate /\ ClientConstructs(m.config))
        /\ LET id == get_client(m).client[1]
               heap == ClientsAfterGetClient(m)
           IN  /\ Held(heap[id]) < MaxHeld
               /\ mgr' = [mgr EXCEPT ![ManagerOf(s)] = get_client(m)]
               /\ clients' = [heap EXCEPT
                                ![id] = [_ensure_client(@) EXCEPT !.waiting = @ + 1]]
               /\ last' = [Op("request_start", s) EXCEPT !.ret = id, !.pre = m]
    /\ UNCHANGED <<sessions, nextId, age, sweepPc, sweepList, shutdown, updates, scanned>>
    /\ UNCHANGED <<clientVars, auxVars>>

\* A request queued at the semaphore of client c takes a permit and issues
\* its HTTP call.
ClientAcquire(c) ==
    /\ clients[c].live
    /\ clients[c].waiting > 0
    /\ CanAcquire(clients[c].permits)
    /\ clients' = [clients EXCEPT ![c].waiting = @ - 1, ![c].permits = @ - 1]
    /\ last' = [Op("acquire", 0) EXCEPT !.ret = c]
    /\ UNCHANGED <<sessions, nextId, mgr, age, sweepPc, sweepList, shutdown, updates,
                   scanned>>
    /\ UNCHANGED <<clientVars, auxVars>>

\* The HTTP call of a request on client c ends and the request leaves
\* _request, giving its permit back; a client that nothing refers to any
\* more is freed.
ClientComplete(c) ==
    /\ clients[c].live
    /\ clients[c].permits < clients[c].limit
    /\ clients' = Collected([clients EXCEPT ![c].permits = release(@)], mgr)
    /\ last' = [Op("complete", 0) EXCEPT !.ret = c]
    /\ UNCHANGED <<sessions, nextId, mgr, age, sweepPc, sweepList, shutdown, updates,
                   scanned>>
    /\ UNCHANGED <<clientVars, auxVars>>

\* LNbitsConfig() reads the environment: the defaults, or a rate limit of
\* one from LNBITS_RATE_LIMIT_PER_MINUTE.
EnvConfigs == {DefaultConfig, [DefaultConfig EXCEPT !.rate_limit_per_minute = 1]}

\* Two sessions, each with its manager in the state __init__ leaves it in,
\* and one update_configuration call still to come.
InitClients ==
    /\ sessions = {1, 2}
    /\ nextId = 2
    /\ \E env \in EnvConfigs : mgr = [i \in Ids |-> RuntimeConfigManager(env)]
    /\ clients = [c \in ClientIds |-> NoClient]
    /\ age = [i \in Ids |-> 0]
    /\ sweepPc = "sleep"
    /\ sweepList = <<>>
    /\ shutdown = FALSE
    /\ updates = MaxUpdates - 1
    /\ scanned = {}
    /\ last = Op("init", 0)
    /\ ClientIdle
    /\ AuxIdle

NextClients ==
    \/ \E s \in Ids : GetClient(s)
    \/ \E s \in Ids : ClientRequestStart(s)
    \/ \E c \in ClientIds : ClientAcquire(c)
    \/ \E c \in ClientIds : ClientComplete(c)
    \/ \E s \in Ids : UpdateConfiguration(s, ClientRequests)
    \/ \E id \in Ids : RemoveSession(id)

SpecClients == InitClients /\ [][NextClients]_vars

---------------------------------------------------------------------------
(* Claims about the client *)

PaymentsIn(log) == {i \in 1..Len(log) : log[i].kind = "payment"}

\* The inputs that are not of the form local-part@domain with a dot in the
\* domain.
MalformedAddresses ==
    {<<"n", "o">>, <<"a", "@", "b">>, <<"a", "@", "b", "@", "x", ".", "c">>,
     <<"@", "x", ".", "c">>, <<"u", "@", ".", "c">>, <<"u", "@", "x", ".">>}

\* What the discovery and the callback answers must be for the two phases to
\* have produced a callback and an invoice.
DiscoveryGaveCallback(resp) ==
    /\ ~resp.transport /\ resp.status = 200 /\ resp.json
    /\ "callback" \in resp.keys /\ "minSendable" \in resp.keys /\ "maxSendable" \in resp.keys
CallbackGaveInvoice(resp) ==
    /\ ~resp.transport /\ resp.status = 200 /\ resp.json
    /\ "pr" \in resp.keys /\ "reason" \notin resp.keys

\* C2: the payment POST is issued only after the discovery has returned a
\* callback and the callback has returned an invoice; if the address is
\* malformed or either phase fails, the call raises and no payment request
\* has been issued.
C2_NoPaymentUnlessResolved ==
    /\ PaymentsIn(pay.log) # {} =>
          /\ Len(pay.log) = 3
          /\ pay.log[1].kind = "discovery" /\ pay.log[2].kind = "callback"
          /\ pay.log[3].kind = "payment"
          /\ pay.address \notin MalformedAddresses
          /\ DiscoveryGaveCallback(pay.discovery)
          /\ CallbackGaveInvoice(pay.callback)
          /\ pay.log[3].bolt11 = pay.callback.text
          /\ pay.log[2].url = pay.discovery.text
    /\ (pay.pc # "idle" /\ pay.address \in MalformedAddresses) =>
          (pay.pc = "raised" /\ PaymentsIn(pay.log) = {})
    /\ (pay.pc \notin {"idle", "discovering"} /\ ~DiscoveryGaveCallback(pay.discovery)) =>
          (pay.pc = "raised" /\ PaymentsIn(pay.log) = {})
    /\ (pay.pc \notin {"idle", "discovering", "fetching"}
          /\ ~CallbackGaveInvoice(pay.callback)) =>
          (pay.pc = "raised" /\ PaymentsIn(pay.log) = {})

\* The callback answered with a reason next to an invoice, and the call has
\* raised after two GETs.
C2_Witness ==
    /\ pay.pc = "raised"
    /\ pay.error = "invoice_failed"
    /\ Len(pay.log) = 2
    /\ pay.callback.status = 200 /\ pay.callback.json
    /\ pay.callback.keys = {"pr", "reason"}
    /\ pay.callback.text = "lnbc1"

\* C3: at most limit requests of one client hold a permit at any moment,
\* and a request starts its HTTP call only while fewer than limit others
\* are in flight.
C3_AtMostLimitInFlight ==
    /\ [](Cardinality(InFlight) <= limit)
    /\ [][\A r \in Reqs :
            (reqPc[r] = "waiting" /\ reqPc'[r] = "inflight") =>
                Cardinality(InFlight) < limit]_vars

\* With a limit of 2, two requests are in flight, one has completed and
\* request 3 is among those in flight.
C3_Witness ==
    /\ limit = 2
    /\ Cardinality(InFlight) = 2
    /\ 3 \in InFlight
    /\ \E r \in Reqs : reqPc[r] \in {"returned", "http_error", "transport_error", "bad_body"}
    /\ permits = 0

Ended == {"returned", "http_error", "transport_error", "bad_body"}

\* C13: a request returns the body exactly when the status of the response
\* is 2xx; a response with any other status makes it raise an error that
\* carries that status, and a transport failure an error that carries none.
C13_BodyIffSuccessStatus ==
    \A r \in Reqs : reqPc[r] \in Ended =>
        LET o == reqOut[r] IN
        /\ o.exit = "returned" <=>
              (~o.response.transport /\ o.response.status \in 200..299)
        /\ (~o.response.transport /\ o.response.status \notin 200..299) =>
              (o.raised = "LNbitsError" /\ o.status_code = Some(o.response.status))
        /\ o.response.transport =>
              (o.raised = "LNbitsError" /\ o.status_code = None)

\* C14: the free permits stay within 0..limit, they are all free whenever
\* no request is in flight, and a request that leaves _request, however it
\* leaves, gives back one permit.
C14_PermitReleasedOnEveryExit ==
    /\ [](permits \in 0..limit)
    /\ [](InFlight = {} => permits = limit)
    /\ [][\A r \in Reqs :
            (reqPc[r] = "inflight" /\ reqPc'[r] # "inflight") =>
                (reqPc'[r] \in Ended /\ permits' = permits + 1)]_vars

\* With a limit of 2 every kind of exit has been taken or is about to be:
\* one request hit a transport error, one got a 200 whose body does not
\* parse, one got a 500, and all permits are free again.
C14_Witness ==
    /\ limit = 2
    /\ reqPc[1] = "transport_error"
    /\ reqPc[2] = "bad_body"
    /\ reqPc[3] = "http_error"
    /\ InFlight = {}
    /\ permits = 2

\* C15: every request that waits for a permit eventually takes one and
\* leaves _request.
C15_WaitingRequestsRun ==
    \A r \in Reqs : [](reqPc[r] = "waiting" => <>(reqPc[r] \in Ended))

\* C11: a call that has returned issued three requests and no more: the
\* discovery GET for the user and the domain of the address, then the
\* callback GET to the URL the discovery named, with the amount in
\* millisatoshis and a comment only if one was given, then the payment POST
\* of the invoice the callback returned.
C11_ThreeRequestsInOrder ==
    pay.pc = "returned" =>
        /\ Len(pay.log) = 3
        /\ pay.log[1].kind = "discovery"
        /\ pay.log[1].user \o <<"@">> \o pay.log[1].domain = pay.address
        /\ pay.log[2].kind = "callback"
        /\ pay.log[2].url = pay.discovery.text
        /\ pay.log[2].amount = Some(pay.amount_sats * 1000)
        /\ pay.log[2].comment # None => pay.log[2].comment = pay.comment
        /\ pay.comment = None => pay.log[2].comment = None
        /\ pay.log[3].kind = "payment"
        /\ pay.log[3].bolt11 = pay.callback.text

\* Five satoshis have been paid to u@s.x.c with the comment "hi".
C11_Witness ==
    /\ pay.pc = "returned"
    /\ pay.address = <<"u", "@", "s", ".", "x", ".", "c">>
    /\ pay.amount_sats = 5
    /\ pay.comment = Some("hi")
    /\ pay.log[2].amount = Some(5000)
    /\ pay.log[2].comment = Some("hi")
    /\ pay.log[3].bolt11 = "lnbc1"

\* One "@", a local part before it and a dot somewhere after it.
WellFormedAddress(a) ==
    /\ Cardinality(AtPositions(a)) = 1
    /\ a[1] # "@"
    /\ \E j \in 1..Len(a) : a[j] = "." /\ \A i \in AtPositions(a) : i < j

\* C12: an address that is not of the form local-part@domain with a dot in
\* the domain makes the call raise before any request is issued.
C12_MalformedAddressRejectedFirst ==
    (pay.pc # "idle" /\ ~WellFormedAddress(pay.address)) =>
        /\ pay.pc = "raised"
        /\ pay.error = "invalid_address"
        /\ pay.log = <<>>

\* The address a@b has been rejected.
C12_Witness ==
    /\ pay.pc = "raised"
    /\ pay.error = "invalid_address"
    /\ pay.address = <<"a", "@", "b">>
    /\ pay.log = <<>>

---------------------------------------------------------------------------
(* Claims about managers and their clients *)

LiveClients == {c \in ClientIds : clients[c].live}
CachedBy(s) == mgr[ManagerOf(s)].client
HandsOutClient == {"get_client", "request_start"}

\* C16: every client is bound to one configuration: the credentials and the
\* rate limiter it works with are those of the configuration it holds, and
\* that configuration is the one its manager held, whole, when the client
\* was handed out.
C16_ClientBoundToOneConfiguration ==
    /\ [](\A c \in LiveClients :
            /\ clients[c].auth_config.api_key = clients[c].config.api_key
            /\ clients[c].auth_config.bearer_token = clients[c].config.bearer_token
            /\ clients[c].auth_config.oauth2_token = clients[c].config.oauth2_token
            /\ clients[c].auth_config.auth_method = clients[c].config.auth_method
            /\ clients[c].limit = clients[c].config.rate_limit_per_minute)
    /\ [][(last'.op \in HandsOutClient /\ ~last'.raised) =>
            /\ clients'[last'.ret].live
            /\ clients'[last'.ret].config = mgr[ManagerOf(last'.sid)].config
            /\ mgr'[ManagerOf(last'.sid)].config = mgr[ManagerOf(last'.sid)].config]_vars

\* A request is in flight on a client that was handed out before session 1
\* was given the API key k1; the manager has since built a client with the
\* new key.
C16_Witness ==
    \E c, d \in LiveClients :
        /\ CachedBy(1) = Some(d)
        /\ c # d
        /\ \A s \in Ids : CachedBy(s) # Some(c)
        /\ clients[c].permits < clients[c].limit
        /\ clients[c].auth_config.api_key = None
        /\ clients[d].auth_config.api_key = Some("k1")
        /\ mgr[ManagerOf(1)].config.api_key = Some("k1")

\* C17: a cached client is bound to the current configuration of its
\* manager; get_client returns the cached client and builds nothing when
\* there is one, and otherwise builds a client from the current
\* configuration; a successful update leaves no client cached.
C17_CacheFollowsConfiguration ==
    /\ [](\A s \in sessions : CachedBy(s) # None =>
            /\ clients[CachedBy(s)[1]].live
            /\ clients[CachedBy(s)[1]].config = mgr[ManagerOf(s)].config)
    /\ [][(last'.op = "update_configuration" /\ ~last'.raised) =>
            mgr'[ManagerOf(last'.sid)].client = None]_vars
    /\ [][(last'.op = "get_client" /\ ~last'.raised) =>
            LET s == last'.sid IN
            IF CachedBy(s) # None
            THEN /\ last'.ret = CachedBy(s)[1]
                 /\ clients' = clients
                 /\ mgr' = mgr
            ELSE /\ ~clients[last'.ret].live
                 /\ clients'[last'.ret].live
                 /\ clients'[last'.ret].config = mgr[ManagerOf(s)].config
                 /\ clients'[last'.ret].http = "none"
                 /\ clients'[last'.ret].permits = clients'[last'.ret].limit
                 /\ mgr'[ManagerOf(s)].client = Some(last'.ret)]_vars

\* get_client has just built a client for session 1, whose configuration
\* was updated with the API key k1 while a client was cached and in use.
C17_Witness ==
    /\ last.op = "get_client" /\ last.sid = 1 /\ last.outcome = "built"
    /\ mgr[ManagerOf(1)].is_configured
    /\ clients[last.ret].config.api_key = Some("k1")
    /\ \E c \in LiveClients : c # last.ret /\ clients[c].config.api_key = None
                                /\ CachedBy(2) # Some(c)

LetsGoOfClient == {"update_configuration", "remove_session", "sweep_remove"}

\* C18: a client that a manager lets go of, in a successful update or in
\* the teardown of its session, does not keep its HTTP connection open.
C18_DiscardedClientIsClosed ==
    last.op \in LetsGoOfClient => last.dropped # "open"

\* C19: two live sessions never cache the same client, and a step of a
\* request changes the client it runs on and no other: the permits, the
\* queue and the connection of every other client stay as they were.
C19_SessionsShareNoClient ==
    /\ [](\A a, b \in sessions :
            (a # b /\ CachedBy(a) # None) => CachedBy(a) # CachedBy(b))
    /\ [][last'.op \in {"request_start", "acquire", "complete"} =>
            \A d \in ClientIds \ {last'.ret} : clients'[d] = clients[d]]_vars

\* With a rate limit of one, a request of session 1 holds the only permit of
\* its client and another waits for it, while the client of session 2,
\* which has served a request, has its permit free.
C19_Witness ==
    /\ CachedBy(1) # None /\ CachedBy(2) # None
    /\ LET c1 == clients[CachedBy(1)[1]]
           c2 == clients[CachedBy(2)[1]]
       IN  /\ c1.limit = 1 /\ c1.permits = 0 /\ c1.waiting = 1
           /\ c2.limit = 1 /\ c2.permits = 1 /\ c2.waiting = 0 /\ c2.http = "open"

---------------------------------------------------------------------------
(* One manager, one call of update_configuration with any request *)

\* A configuration in which no field has its default value.
OtherConfig ==
    [lnbits_url |-> HttpUrl(<<"http://", "b.io", "/api">>),
     api_key |-> Some("k1"),
     bearer_token |-> Some("b1"),
     oauth2_token |-> Some("o1"),
     auth_method |-> "http_bearer",
     timeout |-> 10,
     max_retries |-> 5,
     rate_limit_per_minute |-> 2]

PriorConfigs == {DefaultConfig, OtherConfig}

\* One session whose manager holds any prior configuration, configured at
\* run time or not, with one update_configuration call still to come.
InitUpdate ==
    /\ sessions = {1}
    /\ nextId = 1
    /\ \E c \in PriorConfigs, flag \in BOOLEAN :
        mgr = [i \in Ids |->
                 IF i = 1 THEN [RuntimeConfigManager(c) EXCEPT !.is_configured = flag]
                 ELSE RuntimeConfigManager(DefaultConfig)]
    /\ clients = [c \in ClientIds |-> NoClient]
    /\ age = [i \in Ids |-> 0]
    /\ sweepPc = "sleep"
    /\ sweepList = <<>>
    /\ shutdown = FALSE
    /\ updates = MaxUpdates - 1
    /\ scanned = {}
    /\ last = Op("init", 0)
    /\ ClientIdle
    /\ AuxIdle

NextUpdate ==
    \/ \E s \in Ids : UpdateConfiguration(s, Requests)
    \/ \E s \in Ids : GetConfigurationStatus(s)
    \/ \E s \in Ids : TestConfiguration(s)

SpecUpdate == InitUpdate /\ [][NextUpdate]_vars

---------------------------------------------------------------------------
(* One manager, one call of the configure tool with any arguments *)

\* ConfigTools.call_tool("configure_lnbits", arguments) on the manager of
\* session s
ConfigureLNbits(s) ==
    /\ s \in sessions
    /\ updates < MaxUpdates
    /\ \E arguments \in ToolArguments, extra \in BOOLEAN :
        LET r == _configure_lnbits(mgr[ManagerOf(s)], arguments, extra) IN
        /\ mgr' = [mgr EXCEPT ![ManagerOf(s)] = r.m]
        /\ last' = [Op("configure_lnbits", s) EXCEPT
                        !.req = arguments, !.extra = extra, !.raised = r.raised,
                        !.outcome = r.text,
                        !.pre = mgr[ManagerOf(s)],
                        !.dropped = IF r.updated THEN LetGo(mgr[ManagerOf(s)]) ELSE ""]
        /\ clients' = IF r.updated
                       THEN Collected(ClientsAfterClose(mgr[ManagerOf(s)]),
                                      [mgr EXCEPT ![ManagerOf(s)] = r.m])
                       ELSE clients
    /\ updates' = updates + 1
    /\ UNCHANGED <<sessions, nextId, age, sweepPc, sweepList, shutdown, scanned>>
    /\ UNCHANGED <<clientVars, auxVars>>

NextTool ==
    \/ \E s \in Ids : ConfigureLNbits(s)
    \/ \E s \in Ids : GetConfigurationStatus(s)
    \/ \E s \in Ids : TestConfiguration(s)

SpecTool == InitUpdate /\ [][NextTool]_vars

---------------------------------------------------------------------------
(* Claims about update_configuration and the status dictionary *)

Secrets == {"api_key", "bearer_token", "oauth2_token"}

LastManager == mgr[ManagerOf(last.sid)]
UpdateDone == last.op = "update_configuration"
UpdateSucceeded == UpdateDone /\ ~last.raised

OutOfRange(req) ==
    \/ req.timeout # None /\ req.timeout[1] <= 0
    \/ req.rate_limit_per_minute # None /\ req.rate_limit_per_minute[1] <= 0

\* C4: update_configuration called with a timeout or a rate_limit_per_minute
\* that is zero or negative raises and leaves the configuration as it was.
C4_OutOfRangeIsRejected ==
    (UpdateDone /\ OutOfRange(last.req)) =>
        (last.raised /\ LastManager.config = last.pre.config)

\* C5: an update_configuration that fails validation (a malformed URL, an
\* unknown auth_method) raises, and the configuration, the is_configured
\* flag and the cached client are what they were before the call.
C5_FailedUpdateChangesNothing ==
    UpdateDone =>
        /\ (last.req.lnbits_url = Some(<<"a.io">>) => last.raised)
        /\ (last.req.auth_method = Some("bogus") => last.raised)
        /\ (last.raised =>
                /\ LastManager.config = last.pre.config
                /\ LastManager.is_configured = last.pre.is_configured
                /\ LastManager.client = last.pre.client)

\* A failed update that carried a valid new API key, on a manager that had a
\* client cached.
C5_Witness ==
    /\ UpdateDone /\ last.raised
    /\ last.pre.client # None
    /\ last.req.api_key = Some("k2")
    /\ last.pre.config.api_key # Some("k2")
    /\ last.req.timeout # None

StatusNow == get_configuration_status(LastManager).config
StatusBefore == get_configuration_status(last.pre).config

\* C6 as stated: after a successful update the status reports every supplied
\* field with the supplied value and every other field with its prior value.
C6_ReportsSuppliedValues ==
    UpdateSucceeded =>
        LET req == last.req IN
        /\ StatusNow.lnbits_url =
              IF req.lnbits_url # None THEN req.lnbits_url[1] ELSE StatusBefore.lnbits_url
        /\ \A f \in Secrets :
              StatusNow[f] = IF req[f] # None THEN req[f] ELSE StatusBefore[f]
        /\ StatusNow.auth_method =
              IF req.auth_method # None THEN req.auth_method[1] ELSE StatusBefore.auth_method
        /\ StatusNow.timeout =
              IF req.timeout # None THEN req.timeout[1] ELSE StatusBefore.timeout
        /\ StatusNow.rate_limit_per_minute =
              IF req.rate_limit_per_minute # None THEN req.rate_limit_per_minute[1]
              ELSE StatusBefore.rate_limit_per_minute
        /\ StatusNow.max_retries = StatusBefore.max_retries

\* C6 as amended: after a successful update the status reports a supplied
\* auth_method, timeout and rate_limit_per_minute with the supplied value, a
\* supplied URL in its validated form (path "/" when none was given), a
\* supplied non-empty secret as the marker and a supplied empty secret as
\* the empty string; every field that was not supplied, max_retries
\* included, is reported as it was before the call.
C6_ReportsMergedFields ==
    UpdateSucceeded =>
        LET req == last.req IN
        /\ StatusNow.lnbits_url =
              IF req.lnbits_url = None THEN StatusBefore.lnbits_url
              ELSE IF Len(req.lnbits_url[1]) = 2 THEN req.lnbits_url[1] \o <<"/">>
              ELSE req.lnbits_url[1]
        /\ \A f \in Secrets :
              StatusNow[f] =
                IF req[f] = None THEN StatusBefore[f]
                ELSE IF req[f] = <<"">> THEN <<"">> ELSE <<"***MASKED***">>
        /\ StatusNow.auth_method =
              IF req.auth_method # None THEN req.auth_method[1] ELSE StatusBefore.auth_method
        /\ StatusNow.timeout =
              IF req.timeout # None THEN req.timeout[1] ELSE StatusBefore.timeout
        /\ StatusNow.rate_limit_per_minute =
              IF req.rate_limit_per_minute # None THEN req.rate_limit_per_minute[1]
              ELSE StatusBefore.rate_limit_per_minute
        /\ StatusNow.max_retries = StatusBefore.max_retries
        /\ last.out.config = StatusNow

\* A successful update of a manager with no default left, that supplies a
\* URL, a secret and a rate limit and leaves the timeout alone.
C6_Witness ==
    /\ UpdateSucceeded
    /\ last.pre.config = OtherConfig
    /\ last.req.lnbits_url # None
    /\ last.req.api_key = Some("k2")
    /\ last.req.rate_limit_per_minute = Some(1)
    /\ last.req.timeout = None
    /\ last.req.bearer_token = None

StatusReturned ==
    \/ last.op = "get_configuration_status"
    \/ UpdateSucceeded

\* C7 as stated: in every status result each secret that is set (not None)
\* appears as the marker.
C7_SetSecretsMasked ==
    StatusReturned =>
        \A f \in Secrets :
            LastManager.config[f] # None => last.out.config[f] = <<"***MASKED***">>

\* The configurations that differ from c only in the values of its non-empty
\* secrets.
SecretValues == {"k1", "k2", "b1", "o1", "o2"}
SecretVariants(c) ==
    {d \in [lnbits_url : {c.lnbits_url},
            api_key : IF c.api_key \in {None, <<"">>} THEN {c.api_key} ELSE Opt(SecretValues) \ {None},
            bearer_token : IF c.bearer_token \in {None, <<"">>} THEN {c.bearer_token} ELSE Opt(SecretValues) \ {None},
            oauth2_token : IF c.oauth2_token \in {None, <<"">>} THEN {c.oauth2_token} ELSE Opt(SecretValues) \ {None},
            auth_method : {c.auth_method},
            timeout : {c.timeout},
            max_retries : {c.max_retries},
            rate_limit_per_minute : {c.rate_limit_per_minute}] : TRUE}

\* C7 as amended: in every status result each secret that is set to a
\* non-empty string appears as the marker and never as its value, a secret
\* that is None or the empty string is reported as it is, and two
\* configurations that differ only in the values of their non-empty secrets
\* produce the same status.
C7_NonEmptySecretsMasked ==
    StatusReturned =>
        /\ \A f \in Secrets :
              last.out.config[f] =
                IF LastManager.config[f] \in {None, <<"">>} THEN LastManager.config[f]
                ELSE <<"***MASKED***">>
        /\ \A d \in SecretVariants(LastManager.config) :
              get_configuration_status([LastManager EXCEPT !.config = d]) =
                [is_configured |-> last.out.is_configured, config |-> last.out.config]

\* A status read of a configuration whose three secrets are all non-empty.
C7_Witness ==
    /\ last.op = "get_configuration_status"
    /\ \A f \in Secrets : LastManager.config[f] \notin {None, <<"">>}
    /\ LastManager.config.api_key = Some("k2")
    /\ LastManager.is_configured

---------------------------------------------------------------------------
(* Claims about the life of a RuntimeConfigManager *)

\* C21: a RuntimeConfigManager starts Unconfigured whatever configuration
\* it is built with; its flag changes only from false to true, and only by
\* an update_configuration on it that succeeds; a successful update leaves
\* it true, and a failed update, test_configuration and close leave it as
\* it was.
C21_ConfiguredOnlyBySuccessfulUpdate ==
    /\ \A c \in PriorConfigs \cup EnvConfigs : ~RuntimeConfigManager(c).is_configured
    /\ [][\A s \in Ids :
            /\ mgr'[s].is_configured # mgr[s].is_configured =>
                  /\ ~mgr[s].is_configured
                  /\ last'.op = "update_configuration"
                  /\ last'.sid = s
                  /\ ~last'.raised
            /\ (last'.op = "update_configuration" /\ last'.sid = s /\ ~last'.raised) =>
                  mgr'[s].is_configured]_vars
    /\ [][last'.op \in {"create_session", "get_session_tools"} /\ last'.ret \notin sessions =>
            ~mgr'[ManagerOf(last'.ret)].is_configured]_vars

\* Session 1 was configured at run time and built a client; its removal
\* has closed its manager, which let go of the client and is still
\* Configured.
C21_Witness ==
    /\ last.op = "remove_session" /\ last.sid = 1 /\ last.outcome = "cleanup"
    /\ mgr[ManagerOf(1)].is_configured
    /\ mgr[ManagerOf(1)].client = None
    /\ last.dropped # ""

---------------------------------------------------------------------------
(* Claims about the configure tool *)

\* The arguments the tool must turn down: a timeout or a rate limit outside
\* its range, an auth method that is none of the four, a malformed URL, an
\* unknown key.
InvalidArguments(arguments, extra) ==
    \/ arguments.timeout # None /\ ~(MinTimeout <= arguments.timeout[1] /\ arguments.timeout[1] <= MaxTimeout)
    \/ /\ arguments.rate_limit_per_minute # None
       /\ ~(MinRateLimit <= arguments.rate_limit_per_minute[1]
            /\ arguments.rate_limit_per_minute[1] <= MaxRateLimit)
    \/ arguments.auth_method # None /\ arguments.auth_method[1] \notin AuthMethod
    \/ arguments.lnbits_url # None /\ ~ValidHttpUrl(arguments.lnbits_url[1])
    \/ extra

\* C22: the configure tool, given invalid arguments, returns an error text
\* without raising and leaves the configuration and the is_configured flag
\* of its manager as they were.
C22_InvalidArgumentsChangeNothing ==
    (last.op = "configure_lnbits" /\ InvalidArguments(last.req, last.extra)) =>
        /\ ~last.raised
        /\ last.outcome = "Configuration error"
        /\ mgr[ManagerOf(last.sid)].config = last.pre.config
        /\ mgr[ManagerOf(last.sid)].is_configured = last.pre.is_configured

\* The tool was given a timeout just above the range, and nothing else
\* wrong, on a manager that was not configured at run time.
C22_Witness ==
    /\ last.op = "configure_lnbits"
    /\ last.req.timeout = Some(MaxTimeout + 1)
    /\ last.req.lnbits_url = Some(<<"https://", "a.io">>)
    /\ last.req.auth_method = Some("oauth2")
    /\ last.req.rate_limit_per_minute = Some(MaxRateLimit)
    /\ ~last.extra
    /\ ~last.pre.is_configured
    /\ last.outcome = "Configuration error"

---------------------------------------------------------------------------
(* One AuthConfig with any method and any secrets, and its three methods *)

AuthConfigs ==
    [api_key : Opt(ApiKeyInputs), bearer_token : Opt(BearerInputs),
     oauth2_token : Opt(OAuthInputs), auth_method : AuthMethod]

InitAuth ==
    /\ sessions = {}
    /\ nextId = 0
    /\ mgr = [i \in Ids |-> RuntimeConfigManager(DefaultConfig)]
    /\ clients = [c \in ClientIds |-> NoClient]
    /\ age = [i \in Ids |-> 0]
    /\ sweepPc = "sleep"
    /\ sweepList = <<>>
    /\ shutdown = FALSE
    /\ updates = 0
    /\ scanned = {}
    /\ last = Op("init", 0)
    /\ ClientIdle
    /\ auth \in {[NoAuth EXCEPT !.config = a] : a \in AuthConfigs}
    /\ life = LifeStarted
    /\ calls = NoCalls

GetHeaders ==
    /\ auth.headers = None
    /\ auth' = [auth EXCEPT !.headers = Some(get_headers(auth.config))]
    /\ UNCHANGED <<registryVars, clientVars, life, calls>>

GetQueryParams ==
    /\ auth.params = None
    /\ auth' = [auth EXCEPT !.params = Some(get_query_params(auth.config))]
    /\ UNCHANGED <<registryVars, clientVars, life, calls>>

IsConfigured ==
    /\ auth.is_configured = None
    /\ auth' = [auth EXCEPT !.is_configured = Some(is_configured(auth.config))]
    /\ UNCHANGED <<registryVars, clientVars, life, calls>>

NextAuth ==
    \/ GetHeaders
    \/ GetQueryParams
    \/ IsConfigured

SpecAuth == InitAuth /\ [][NextAuth]_vars

---------------------------------------------------------------------------
(* Claims about AuthConfig *)

\* The secret of the selected method.
SelectedSecret(a) ==
    CASE a.auth_method = "api_key_header" -> a.api_key
      [] a.auth_method = "api_key_query" -> a.api_key
      [] a.auth_method = "http_bearer" -> a.bearer_token
      [] a.auth_method = "oauth2" -> a.oauth2_token

\* The row of the table for the selected method when its secret counts
\* (has), and nothing when it does not.
RowHeaders(a, has) ==
    IF ~has THEN {}
    ELSE CASE a.auth_method = "api_key_header" -> {Entry("X-API-KEY", <<a.api_key[1]>>)}
           [] a.auth_method = "api_key_query" -> {}
           [] a.auth_method = "http_bearer" ->
                {Entry("Authorization", <<"Bearer ", a.bearer_token[1]>>)}
           [] a.auth_method = "oauth2" ->
                {Entry("Authorization", <<"Bearer ", a.oauth2_token[1]>>)}

RowParams(a, has) ==
    IF has /\ a.auth_method = "api_key_query"
    THEN {Entry("api_key", <<a.api_key[1]>>)}
    ELSE {}

Augmented == auth.headers # None /\ auth.params # None

\* C23 as stated: whenever the secret of the selected method is present,
\* headers and query parameters are exactly the row of that method, and
\* nothing when it is absent. Refuted by a secret that is the empty string.
C23_RowWheneverSecretPresent ==
    Augmented =>
        /\ auth.headers[1] = RowHeaders(auth.config, SelectedSecret(auth.config) # None)
        /\ auth.params[1] = RowParams(auth.config, SelectedSecret(auth.config) # None)

\* C23: for every method and every combination of secrets, get_headers and
\* get_query_params yield exactly the row of the selected method built from
\* that method's own secret when that secret is present and not empty, and
\* nothing at all otherwise; never both a header and a query parameter.
C23_RowWheneverSecretNonEmpty ==
    Augmented =>
        /\ auth.headers[1] = RowHeaders(auth.config, Truthy(SelectedSecret(auth.config)))
        /\ auth.params[1] = RowParams(auth.config, Truthy(SelectedSecret(auth.config)))
        /\ auth.headers[1] = {} \/ auth.params[1] = {}

\* http_bearer is selected with all three secrets set: the only entry is
\* the Authorization header built from the bearer token.
C23_Witness ==
    /\ Augmented
    /\ auth.config.auth_method = "http_bearer"
    /\ auth.config.api_key = Some("k1")
    /\ auth.config.bearer_token = Some("b1")
    /\ auth.config.oauth2_token = Some("o1")
    /\ auth.headers[1] = {Entry("Authorization", <<"Bearer ", "b1">>)}
    /\ auth.params[1] = {}

\* C24 as stated: is_configured is true exactly when the secret of the
\* selected method is present. Refuted by a secret that is the empty
\* string.
C24_ConfiguredIffSecretPresent ==
    auth.is_configured # None =>
        (auth.is_configured[1] <=> SelectedSecret(auth.config) # None)

\* C24: is_configured returns (never raises) and is true exactly when the
\* secret of the selected method is present and not empty; the secrets of
\* the other methods have no influence; and it is true exactly when headers
\* and query parameters together are not empty.
C24_ConfiguredIffSecretNonEmpty ==
    /\ auth.is_configured # None =>
          /\ auth.is_configured[1] <=> Truthy(SelectedSecret(auth.config))
          /\ \A b \in AuthConfigs :
                (/\ b.auth_method = auth.config.auth_method
                 /\ SelectedSecret(b) = SelectedSecret(auth.config)) =>
                    is_configured(b) = auth.is_configured[1]
    /\ (auth.is_configured # None /\ Augmented) =>
          (auth.is_configured[1] <=> auth.headers[1] \cup auth.params[1] # {})

\* api_key_query is selected without an API key while the bearer token is
\* set: is_configured has returned false and nothing was added to the
\* request.
C24_Witness ==
    /\ auth.is_configured = Some(FALSE)
    /\ Augmented
    /\ auth.config.auth_method = "api_key_query"
    /\ auth.config.api_key = None
    /\ auth.config.bearer_token = Some("b1")
    /\ auth.headers[1] \cup auth.params[1] = {}

---------------------------------------------------------------------------
(* Claims about test_configuration *)

\* C25: test_configuration never raises and never changes the configuration
\* or the is_configured flag; it returns success = true when the wallet
\* call succeeds and success = false when the call, or the construction of
\* the client before it, fails. (With a rate limit of 0 the wallet call
\* neither succeeds nor fails: it waits for a permit and the test has not
\* returned.)
C25_TestReportsAndChangesNothing ==
    last.op = "test_configuration" =>
        LET m == mgr[ManagerOf(last.sid)]
            called == last.pre.client # None \/ ClientConstructs(last.pre.config)
            waits == called /\ clients[m.client[1]].limit = 0
        IN  /\ ~last.raised
            /\ m.config = last.pre.config
            /\ m.is_configured = last.pre.is_configured
            /\ last.outcome \in {"success", "failure", "blocked"}
            /\ last.outcome = "success" <=> (called /\ ~waits /\ last.walletOk)
            /\ last.outcome = "failure" <=> (~called \/ (~waits /\ ~last.walletOk))

\* A manager configured at run time with an API key was tested twice: the
\* first wallet call succeeded, the second failed and was reported as a
\* failure, and the manager still holds the configuration and the flag.
C25_Witness ==
    /\ last.op = "test_configuration" /\ last.outcome = "failure"
    /\ ~last.walletOk
    /\ last.pre.client # None
    /\ last.pre.is_configured
    /\ mgr[ManagerOf(last.sid)].is_configured
    /\ mgr[ManagerOf(last.sid)].config.api_key = Some("k1")
    /\ mgr[ManagerOf(last.sid)].config = last.pre.config

---------------------------------------------------------------------------
(* The global registry: get_session_manager, the cleanup task and
   cleanup_session_manager *)

FreeTask(l) == \E t \in TaskIds : l.tasks[t].pc = "none"
NewTaskId(l) == CHOOSE t \in TaskIds :
                    /\ l.tasks[t].pc = "none"
                    /\ \A u \in TaskIds : l.tasks[u].pc = "none" => t <= u

\* asyncio.create_task: a new task, kept in _cleanup_task.
CreateTask(l) ==
    IF FreeTask(l)
    THEN [l EXCEPT !.tasks[NewTaskId(l)] = [NewTask EXCEPT !.owner = l.generation],
                   !.cleanup_task = Some(NewTaskId(l))]
    ELSE l

\* Task.done()
Done(l, t) == l.tasks[t].pc = "done"

\* The tasks that have been created and have not ended, and those of them
\* that belong to manager g.
AliveTasks(l) == {t \in TaskIds : l.tasks[t].pc \in {"new", "sleep", "removing"}}
AliveTasksOf(l, g) == {t \in AliveTasks(l) : l.tasks[t].owner = g}

\* A start that creates a task whether or not one is running.
start_cleanup_task_always(l) == CreateTask(l)

\* start_cleanup_task: create a task unless one is kept that is not done.
start_cleanup_task(l) ==
    IF l.cleanup_task = None \/ Done(l, l.cleanup_task[1])
    THEN CreateTask(l)
    ELSE l

\* stop_cleanup_task up to its await: the kept task, if it is not done, is
\* cancelled and then awaited.
StopSuspends(l) == l.cleanup_task # None /\ ~Done(l, l.cleanup_task[1])
stop_cleanup_task(l) ==
    IF StopSuspends(l)
    THEN [l EXCEPT !.tasks[l.cleanup_task[1]].cancel = TRUE]
    ELSE l

\* with lock: ... (threading.RLock, re-entrant for the one thread that runs
\* the event loop)
Acquire(l, lock) == [l EXCEPT !.locks[lock] = @ + 1]
Release(l, lock) == [l EXCEPT !.locks[lock] = @ - 1]

\* get_session_manager: under the registry lock, build the manager and
\* start its cleanup task if there is none.
GetSessionManager ==
    /\ ~life.manager => FreeTask(life)
    /\ LET l == Acquire(life, "registry") IN
        IF life.manager
        THEN /\ life' = Release(l, "registry")
             /\ UNCHANGED <<sessions, age, shutdown>>
        ELSE /\ life' = Release(start_cleanup_task(
                            [l EXCEPT !.manager = TRUE, !.generation = @ + 1,
                                      !.cleanup_task = None]), "registry")
             /\ sessions' = {}
             /\ age' = [i \in Ids |-> 0]
             /\ shutdown' = FALSE
    /\ last' = [Op("get_session_manager", 0) EXCEPT
                    !.outcome = IF life.manager THEN "" ELSE "created"]
    /\ UNCHANGED <<nextId, mgr, clients, sweepPc, sweepList, updates, scanned>>
    /\ UNCHANGED <<clientVars, auth, calls>>

\* SessionManager.start_cleanup_task
StartCleanupTask ==
    /\ life.manager
    /\ (life.cleanup_task = None \/ Done(life, life.cleanup_task[1])) => FreeTask(life)
    /\ life' = start_cleanup_task(life)
    /\ last' = [Op("start_cleanup_task", 0) EXCEPT
                    !.outcome = IF life' # life THEN "created" ELSE ""]
    /\ UNCHANGED <<sessions, nextId, mgr, clients, age, sweepPc, sweepList, shutdown,
                   updates, scanned>>
    /\ UNCHANGED <<clientVars, auth, calls>>

\* SessionManager.stop_cleanup_task, called on its own, up to its await
StopCleanupTaskCalled ==
    /\ life.manager
    /\ shutdown' = TRUE
    /\ life' = [stop_cleanup_task(life) EXCEPT
                    !.stoppers = IF StopSuspends(life)
                                 THEN @ \cup {life.cleanup_task[1]} ELSE @]
    /\ last' = [Op("stop_cleanup_task", 0) EXCEPT
                    !.outcome = IF StopSuspends(life) THEN "awaiting" ELSE ""]
    /\ UNCHANGED <<sessions, nextId, mgr, clients, age, sweepPc, sweepList, updates, scanned>>
    /\ UNCHANGED <<clientVars, auth, calls>>

\* stop_cleanup_task resumes when the task it awaits has ended.
StopCleanupTaskReturns(t) ==
    /\ t \in life.stoppers
    /\ Done(life, t)
    /\ life' = [life EXCEPT !.stoppers = @ \ {t}]
    /\ last' = Op("stop_cleanup_task_returns", 0)
    /\ UNCHANGED <<sessions, nextId, mgr, clients, age, sweepPc, sweepList, shutdown,
                   updates, scanned>>
    /\ UNCHANGED <<clientVars, auth, calls>>

\* The loop test of _cleanup_expired_sessions: _shutdown of the manager the
\* task belongs to, which is set in every manager that has been forgotten.
AfterCycle(t) ==
    IF life.tasks[t].owner # life.generation \/ shutdown THEN "done" ELSE "sleep"

\* _cleanup_expired_sessions, first run of a task: the loop test.
TaskStarts(t) ==
    /\ life.tasks[t].pc = "new"
    /\ ~life.tasks[t].cancel
    /\ life' = [life EXCEPT !.tasks[t].pc = AfterCycle(t)]
    /\ last' = Op("task_starts", 0)
    /\ UNCHANGED <<sessions, nextId, mgr, clients, age, sweepPc, sweepList, shutdown,
                   updates, scanned>>
    /\ UNCHANGED <<clientVars, auth, calls>>

\* The sleep of a task is over: _remove_expired_sessions collects the
\* expired ids under the sessions lock.
TaskScan(t) ==
    /\ life.tasks[t].pc = "sleep"
    /\ life.tasks[t].owner = life.generation
    /\ ~life.tasks[t].cancel
    /\ LET expired_sessions == IdsInOrder(1, {s \in sessions : is_expired(s)}) IN
        life' = [life EXCEPT
                    !.tasks[t].list = expired_sessions,
                    !.tasks[t].pc = IF expired_sessions = <<>> THEN AfterCycle(t)
                                    ELSE "removing"]
    /\ last' = Op("sweep_scan", 0)
    /\ UNCHANGED <<sessions, nextId, mgr, clients, age, sweepPc, sweepList, shutdown,
                   updates, scanned>>
    /\ UNCHANGED <<clientVars, auth, calls>>

\* A task awaits remove_session for the next id it collected. (The tasks
\* of a forgotten manager sweep a map that is no longer the registry's.)
TaskRemove(t) ==
    /\ life.tasks[t].pc = "removing"
    /\ life.tasks[t].owner = life.generation
    /\ ~life.tasks[t].cancel
    /\ LET id == Head(life.tasks[t].list) IN
        /\ RemoveFromMap(id)
        /\ last' = [Op("sweep_remove", id) EXCEPT
                        !.ret = IF remove_session(id) THEN id ELSE 0,
                        !.outcome = IF id \in sessions THEN "cleanup" ELSE "",
                        !.idle = age[id]]
    /\ life' = [life EXCEPT
                    !.tasks[t].list = Tail(@),
                    !.tasks[t].pc = IF Tail(life.tasks[t].list) = <<>> THEN AfterCycle(t)
                                    ELSE "removing"]
    /\ UNCHANGED <<nextId, sweepPc, sweepList, shutdown, updates, scanned>>
    /\ UNCHANGED <<clientVars, auth, calls>>

\* A cancelled task gets CancelledError at the await it is suspended in
\* (or before its first run) and ends.
TaskCancelled(t) ==
    /\ life.tasks[t].cancel
    /\ t \in AliveTasks(life)
    /\ life' = [life EXCEPT !.tasks[t].pc = "done", !.tasks[t].list = <<>>]
    /\ last' = Op("task_cancelled", 0)
    /\ UNCHANGED <<sessions, nextId, mgr, clients, age, sweepPc, sweepList, shutdown,
                   updates, scanned>>
    /\ UNCHANGED <<clientVars, auth, calls>>

\* A teardown that cancels the task and returns without waiting for it.
CleanupStops_not_awaiting(l) ==
    [Release(stop_cleanup_task(l), "registry") EXCEPT !.pc = "idle", !.manager = FALSE]

\* cleanup_all_sessions after its removals: stop_cleanup_task, and when that
\* does not have to wait, the end of cleanup_session_manager, which forgets
\* the manager and leaves the registry lock.
CleanupStops(l) ==
    IF StopSuspends(l)
    THEN [stop_cleanup_task(l) EXCEPT !.pc = "stopping", !.awaits = l.cleanup_task]
    ELSE [Release(l, "registry") EXCEPT !.pc = "idle", !.manager = FALSE]

\* cleanup_session_manager up to its first await: under the registry lock,
\* cleanup_all_sessions lists the ids of the map and awaits the removal of
\* the first.
CleanupSessionManager ==
    /\ life.pc = "idle"
    /\ LET l == Acquire(life, "registry") IN
        IF ~life.manager
        THEN /\ life' = Release(l, "registry")
             /\ shutdown' = shutdown
        ELSE IF sessions # {}
        THEN /\ life' = [l EXCEPT !.pc = "removing",
                                   !.session_ids = IdsInOrder(1, sessions),
                                   !.called_with = sessions]
             /\ shutdown' = shutdown
        ELSE /\ life' = CleanupStops([l EXCEPT !.called_with = {}])
             /\ shutdown' = TRUE
    /\ last' = [Op("cleanup_session_manager", 0) EXCEPT
                    !.outcome = IF life.manager THEN "cleanup" ELSE ""]
    /\ UNCHANGED <<sessions, nextId, mgr, clients, age, sweepPc, sweepList, updates, scanned>>
    /\ UNCHANGED <<clientVars, auth, calls>>

\* cleanup_all_sessions: the removal it awaits ends, and it goes on to the
\* next id or to stop_cleanup_task.
CleanupRemove ==
    /\ life.pc = "removing"
    /\ LET id == Head(life.session_ids)
           l == [life EXCEPT !.session_ids = Tail(@)]
       IN  /\ RemoveFromMap(id)
           /\ last' = [Op("remove_session", id) EXCEPT
                           !.ret = IF remove_session(id) THEN id ELSE 0,
                           !.outcome = IF id \in sessions THEN "cleanup" ELSE "",
                           !.idle = age[id]]
           /\ life' = IF l.session_ids = <<>> THEN CleanupStops(l) ELSE l
           /\ shutdown' = (shutdown \/ l.session_ids = <<>>)
    /\ UNCHANGED <<nextId, sweepPc, sweepList, updates, scanned>>
    /\ UNCHANGED <<clientVars, auth, calls>>

\* cleanup_session_manager resumes when the cancelled task has ended:
\* _session_manager = None, and the registry lock is left.
CleanupReturns ==
    /\ life.pc = "stopping"
    /\ Done(life, life.awaits[1])
    /\ life' = [Release(life, "registry") EXCEPT
                    !.pc = "idle", !.awaits = None, !.manager = FALSE]
    /\ last' = Op("cleanup_session_manager_returns", 0)
    /\ UNCHANGED <<sessions, nextId, mgr, clients, age, sweepPc, sweepList, shutdown,
                   updates, scanned>>
    /\ UNCHANGED <<clientVars, auth, calls>>

\* The process before get_session_manager was first called.
InitLife ==
    /\ sessions = {}
    /\ nextId = 0
    /\ mgr = [i \in Ids |-> RuntimeConfigManager(DefaultConfig)]
    /\ clients = [c \in ClientIds |-> NoClient]
    /\ age = [i \in Ids |-> 0]
    /\ sweepPc = "sleep"
    /\ sweepList = <<>>
    /\ shutdown = FALSE
    /\ updates = 0
    /\ scanned = {}
    /\ last = Op("init", 0)
    /\ ClientIdle
    /\ auth = NoAuth
    /\ life = NoLife
    /\ calls = NoCalls

NextLife ==
    \/ GetSessionManager
    \/ life.manager /\ CreateSession
    \/ Tick
    \/ StartCleanupTask
    \/ StopCleanupTaskCalled
    \/ \E t \in TaskIds : StopCleanupTaskReturns(t)
    \/ \E t \in TaskIds : TaskStarts(t)
    \/ \E t \in TaskIds : TaskScan(t)
    \/ \E t \in TaskIds : TaskRemove(t)
    \/ \E t \in TaskIds : TaskCancelled(t)
    \/ CleanupSessionManager
    \/ CleanupRemove
    \/ CleanupReturns

SpecLife == InitLife /\ [][NextLife]_vars

---------------------------------------------------------------------------
(* Claims about locks and the cleanup task *)

\* C26: no lock is held at a point where its holder is suspended: in every
\* state, in which every operation under way is at one of its awaits, the
\* registry lock, the sessions lock and the lock of a RuntimeConfigManager
\* are free.
C26_NoLockHeldWhileSuspended ==
    \A lock \in LockNames : life.locks[lock] = 0

\* C27: of the sweep tasks of one SessionManager at most one is alive at a
\* time, so at most one is in a sweep cycle.
C27_AtMostOneSweepTask ==
    \A g \in 1..MaxTasks :
        /\ Cardinality(AliveTasksOf(life, g)) <= 1
        /\ Cardinality({t \in TaskIds : /\ life.tasks[t].pc = "removing"
                                        /\ life.tasks[t].owner = g}) <= 1

\* The first task was stopped and has ended; a later start_cleanup_task
\* created the second task, which is the only one alive, and a further
\* start_cleanup_task has created none.
C27_Witness ==
    /\ last.op = "start_cleanup_task" /\ last.outcome = ""
    /\ life.tasks[1].pc = "done"
    /\ life.cleanup_task = Some(2)
    /\ AliveTasksOf(life, 1) = {2}

---------------------------------------------------------------------------
(* Claims about the attempts of _request *)

---------------------------------------------------------------------------
(* Claims about the two LNURL phases *)

\* The discovery GET, and the callback GET, has returned to its caller.
Discovered == pay.pc \in {"fetching", "paying", "returned"} \/ pay.error \in {"resolve_failed", "invoice_failed", "payment_failed"}
Fetched == pay.pc \in {"paying", "returned"} \/ pay.error \in {"invoice_failed", "payment_failed"}

\* C29: for a well-formed address resolve_lightning_address returns the
\* callback of the discovery response when that response is HTTP 200 with a
\* JSON body that has callback, minSendable and maxSendable, and None in
\* every other case, a transport failure and an unparseable body included;
\* it does not raise: the only error after a discovery without a callback
\* is the one its caller raises.
C29_CallbackIffCompleteDiscovery ==
    Discovered =>
        /\ MatchesAddress(pay.address)
        /\ pay.callback_url # None <=> DiscoveryGaveCallback(pay.discovery)
        /\ pay.callback_url # None => pay.callback_url = Some(pay.discovery.text)
        /\ pay.callback_url = None => pay.pc = "raised" /\ pay.error = "resolve_failed"

\* The discovery of a well-formed address came back with HTTP 200 and a
\* JSON body that has callback and minSendable and lacks maxSendable:
\* nothing was resolved and no callback was requested.
C29_Witness ==
    /\ Discovered
    /\ pay.address = <<"u", "@", "x", ".", "c">>
    /\ pay.discovery.status = 200 /\ pay.discovery.json
    /\ pay.discovery.keys = {"callback", "minSendable"}
    /\ pay.discovery.text = "https://x/cb"
    /\ pay.callback_url = None
    /\ Len(pay.log) = 1

---------------------------------------------------------------------------
(* Claims about the message of the error of _request *)

\* The parts a message is put together from.
Parts(message) == {message[i] : i \in 1..Len(message)}

\* C31: the message of the error raised for a status of 400 or more holds
\* the detail of the body when the body is JSON with that key, and holds the
\* raw body text in every other case, a JSON body without the key included.
C31_MessageHoldsDetailOrBody ==
    \A r \in Reqs : reqPc[r] = "http_error" =>
        LET o == reqOut[r] IN
        IF o.response.json /\ "detail" \in o.response.keys
        THEN DetailOf(o.response) \in Parts(o.message)
        ELSE o.response.text \in Parts(o.message)

---------------------------------------------------------------------------
(* Claims about get_session *)

\* C32: get_session on an id of the map returns that session and sets its
\* last access to the current time, which is not earlier than the previous
\* one (the idle time it found is not negative, the one it leaves is zero);
\* on any other id it returns nothing; in both cases the map, the ids
\* handed out, the managers and the times of the other sessions are as
\* before.
C32_GetSessionBumpsOnHitOnly ==
    [][last'.op = "get_session" =>
          /\ sessions' = sessions /\ nextId' = nextId /\ mgr' = mgr
          /\ \A o \in Ids \ {last'.sid} : age'[o] = age[o]
          /\ IF last'.sid \in sessions
             THEN /\ last'.ret = last'.sid
                  /\ age'[last'.sid] = 0
                  /\ last'.idle = age[last'.sid] /\ last'.idle >= 0
             ELSE /\ last'.ret = 0
                  /\ age' = age]_vars

\* Session 1 had been idle for two ticks when get_session found it; its
\* idle time is zero again while session 2 is as idle as it was.
C32_Witness ==
    /\ last.op = "get_session" /\ last.sid = 1 /\ last.ret = 1
    /\ last.idle = 2
    /\ age[1] = 0
    /\ 2 \in sessions /\ age[2] = 2

---------------------------------------------------------------------------
(* Claims about the teardown of the registry *)

\* The registry with tool calls that take the client of a session of the
\* map.
NextTeardown ==
    \/ NextLife
    \/ \E s \in Ids : life.manager /\ GetClient(s)

SpecTeardown == InitLife /\ [][NextTeardown]_vars

\* The manager that cleanup_session_manager has torn down and forgotten,
\* as long as no new one has been built.
TornDown(l) == ~l.manager /\ l.generation > 0

\* C33: once cleanup_all_sessions has returned, every sweep task of the
\* manager that has run has ended (a task created while the teardown was
\* waiting has not run yet and ends at its first loop test), no sweep
\* removes a session from then on, every session that was in the map when
\* the teardown was called is out of the map and its manager holds no
\* client, and every removal has torn down the session it removed.
C33_NoSweepAfterTeardown ==
    [][/\ TornDown(life') =>
            /\ \A t \in TaskIds : life'.tasks[t].pc \in {"none", "new", "done"}
            /\ life'.called_with \cap sessions' = {}
            /\ \A id \in life'.called_with : mgr'[ManagerOf(id)].client = None
       /\ TornDown(life) => last'.op # "sweep_remove"
       /\ life'.generation = life.generation =>
            \A id \in sessions \ sessions' : mgr'[ManagerOf(id)].client = None]_vars

\* The teardown found sessions 1 and 2 in the map and a sweep task running;
\* it has removed both, has waited for the task it cancelled and has
\* returned.
C33_Witness ==
    /\ last.op = "cleanup_session_manager_returns"
    /\ TornDown(life)
    /\ life.called_with = {1, 2}
    /\ sessions = {}
    /\ life.cleanup_task = Some(1)
    /\ life.tasks[1].pc = "done" /\ life.tasks[1].cancel

---------------------------------------------------------------------------
(* One manager and the clients it builds over time *)

\* One session, its manager in the state __init__ leaves it in, and one
\* update_configuration call still to come: every client of the heap was
\* built by this manager.
InitOneManager ==
    /\ sessions = {1}
    /\ nextId = 1
    /\ \E env \in EnvConfigs : mgr = [i \in Ids |-> RuntimeConfigManager(env)]
    /\ clients = [c \in ClientIds |-> NoClient]
    /\ age = [i \in Ids |-> 0]
    /\ sweepPc = "sleep"
    /\ sweepList = <<>>
    /\ shutdown = FALSE
    /\ updates = MaxUpdates - 1
    /\ scanned = {}
    /\ last = Op("init", 0)
    /\ ClientIdle
    /\ AuxIdle

SpecOneManager == InitOneManager /\ [][NextClients]_vars

\* The requests of client c that hold a permit: their HTTP call is under
\* way.
ClientInFlight(c) == IF clients[c].live THEN clients[c].limit - clients[c].permits ELSE 0

RECURSIVE TotalInFlight(_)
TotalInFlight(S) ==
    IF S = {} THEN 0
    ELSE LET c == CHOOSE x \in S : TRUE IN ClientInFlight(c) + TotalInFlight(S \ {c})

\* C34: the requests in flight of one manager, those on the clients it
\* built before a configuration update counted with those on the client
\* built after it, are never more than the rate limit of its current
\* configuration.
C34_ManagerWideRateLimit ==
    TotalInFlight(ClientIds) <= mgr[ManagerOf(1)].config.rate_limit_per_minute

---------------------------------------------------------------------------
(* Tool calls that hold a session across its removal *)

\* CoreTools.get_wallet_balance of session s up to the await of its HTTP
\* call: the tools object was taken from the map, get_client hands out the
\* client of its manager and the request takes a permit of that client.
GetWalletBalance(s) ==
    /\ s \in sessions
    /\ calls[s] = None
    /\ LET m == mgr[ManagerOf(s)] IN
        /\ m.client = None => (CanAllocate /\ ClientConstructs(m.config))
        /\ LET id == get_client(m).client[1]
               heap == ClientsAfterGetClient(m)
           IN  /\ CanAcquire(heap[id].permits)
               /\ mgr' = [mgr EXCEPT ![ManagerOf(s)] = get_client(m)]
               /\ clients' = [heap EXCEPT
                                ![id] = [_ensure_client(@) EXCEPT !.permits = @ - 1]]
               /\ calls' = [calls EXCEPT ![s] = Some(id)]
               /\ last' = [Op("get_wallet_balance", s) EXCEPT !.ret = id, !.pre = m]
    /\ UNCHANGED <<sessions, nextId, age, sweepPc, sweepList, shutdown, updates, scanned>>
    /\ UNCHANGED <<clientVars, auth, life>>

\* The HTTP call of get_wallet_balance succeeds and the tool call returns
\* the balance.
GetWalletBalanceReturns(s) ==
    /\ calls[s] # None
    /\ clients' = Collected([clients EXCEPT ![calls[s][1]].permits = release(@)], mgr)
    /\ calls' = [calls EXCEPT ![s] = None]
    /\ last' = [Op("get_wallet_balance_returns", s) EXCEPT !.ret = calls[s][1]]
    /\ UNCHANGED <<sessions, nextId, mgr, age, sweepPc, sweepList, shutdown, updates,
                   scanned>>
    /\ UNCHANGED <<clientVars, auth, life>>

\* The HTTP call of get_wallet_balance raises LNbitsError: the except
\* branch calls get_wallet_details, which asks the manager it holds for a
\* client and starts a wallet request on it.
GetWalletBalanceFallback(s) ==
    /\ calls[s] # None
    /\ LET m == mgr[ManagerOf(s)]
           c == calls[s][1]
       IN
        /\ m.client = None => CanAllocate
        /\ IF m.client = None /\ ~ClientConstructs(m.config)
           THEN /\ mgr' = mgr
                /\ clients' = Collected([clients EXCEPT ![c].permits = release(@)], mgr)
                /\ last' = [Op("get_wallet_details", s) EXCEPT !.raised = TRUE, !.pre = m]
           ELSE LET id == get_client(m).client[1]
                    heap == [ClientsAfterGetClient(m) EXCEPT ![c].permits = release(@)]
                IN  /\ mgr' = [mgr EXCEPT ![ManagerOf(s)] = get_client(m)]
                    /\ clients' = Collected([heap EXCEPT ![id] = _ensure_client(@)], mgr')
                    /\ last' = [Op("get_wallet_details", s) EXCEPT
                                    !.ret = id, !.pre = m,
                                    !.outcome = IF m.client = None THEN "built"
                                                ELSE "cached"]
    /\ calls' = [calls EXCEPT ![s] = None]
    /\ UNCHANGED <<sessions, nextId, age, sweepPc, sweepList, shutdown, updates, scanned>>
    /\ UNCHANGED <<clientVars, auth, life>>

NextCalls ==
    \/ \E s \in Ids : GetWalletBalance(s)
    \/ \E s \in Ids : GetWalletBalanceReturns(s)
    \/ \E s \in Ids : GetWalletBalanceFallback(s)
    \/ \E id \in Ids : RemoveSession(id)

SpecCalls == InitClients /\ [][NextCalls]_vars

\* C35: the manager of a session that has been removed holds no client,
\* whatever the tool calls do that took the session from the map before
\* it was removed.
C35_RemovedManagerHoldsNoClient ==
    \A s \in 1..nextId : s \notin sessions => mgr[ManagerOf(s)].client = None

---------------------------------------------------------------------------
(* Claims about get_session_tools with an id that is no longer good *)

\* C36: get_session_tools with an id that is not in the map (never handed
\* out, or removed) or whose session has been idle for longer than the
\* timeout returns a session it has just created under an id never handed
\* out before, with the default configuration, and an id that was handed
\* out before is not in the map afterwards. (An id never handed out is a
\* number here, which the next session may get; a uuid never is.)
C36_StaleIdGetsFreshSession ==
    [][(/\ last'.op = "get_session_tools"
        /\ last'.sid # 0
        /\ (last'.sid \notin sessions \/ is_expired(last'.sid))) =>
         /\ last'.ret \notin 0..nextId
         /\ last'.ret \in sessions'
         /\ mgr'[ManagerOf(last'.ret)] = RuntimeConfigManager(DefaultConfig)
         /\ last'.sid \in 1..nextId => last'.sid \notin sessions']_vars

---------------------------------------------------------------------------
(* Claims about a teardown that fails *)

\* C37: when the close of a session's teardown raises during a sweep, the
\* session is out of the map all the same, nothing is raised out of the
\* removal, the ids that the sweep has still to remove are all still to
\* be removed and the task is still in its loop; the task leaves the loop
\* only by stop_cleanup_task, which sets the shutdown flag and cancels it.
C37_FailedTeardownStopsNothing ==
    /\ [][(last'.op = "sweep_remove" /\ last'.failed) =>
            /\ last'.sid \in sessions
            /\ last'.sid \notin sessions'
            /\ ~last'.raised
            /\ last'.ret = last'.sid
            /\ sweepList' = Tail(sweepList)
            /\ sweepPc' = IF sweepList' = <<>> THEN "sleep" ELSE "removing"]_vars
    /\ [][(sweepPc' \notin {"sleep", "removing"} /\ sweepPc \in {"sleep", "removing"}) =>
            last'.op = "stop_cleanup_task" /\ shutdown']_vars

\* The sweep collected sessions 1 and 2; the teardown of session 1 has
\* failed, session 1 is out of the map and the sweep goes on to session 2.
C37_Witness ==
    /\ last.op = "sweep_remove" /\ last.sid = 1 /\ last.failed
    /\ 1 \notin sessions
    /\ sweepPc = "removing"
    /\ sweepList = <<2>>
    /\ 2 \in sessions

---------------------------------------------------------------------------
(* Claims about an update that supplies no field *)

EmptyUpdate(l) == l.op = "update_configuration" /\ l.req = NoRequest

\* C38: update_configuration with none of its seven fields supplied does
\* not raise, leaves every field of the configuration as it was, leaves the
\* manager configured and without a cached client; the get_client that
\* follows it builds a client that did not exist, bound to that
\* configuration, with no HTTP connection and a rate limiter of its own
\* with every permit free.
C38_EmptyUpdateReconfigures ==
    /\ [][EmptyUpdate(last') =>
            LET s == last'.sid IN
            /\ ~last'.raised
            /\ mgr'[ManagerOf(s)].config = mgr[ManagerOf(s)].config
            /\ mgr'[ManagerOf(s)].is_configured
            /\ mgr'[ManagerOf(s)].client = None]_vars
    /\ [][(/\ EmptyUpdate(last)
           /\ last'.op = "get_client" /\ last'.sid = last.sid /\ ~last'.raised) =>
            /\ last'.outcome = "built"
            /\ ~clients[last'.ret].live
            /\ last.pre.client # None /\ clients[last.pre.client[1]].live
                  => last'.ret # last.pre.client[1]
            /\ clients'[last'.ret].live
            /\ clients'[last'.ret].config = last.pre.config
            /\ clients'[last'.ret].http = "none"
            /\ clients'[last'.ret].waiting = 0
            /\ clients'[last'.ret].permits = clients'[last'.ret].limit
            /\ mgr'[ManagerOf(last'.sid)].client = Some(last'.ret)]_vars

\* A request of session 1 holds a permit of the client that was cached
\* when update_configuration was called with no field; the configuration
\* is still the default one, the manager is configured, and get_client has
\* just built another client, whose permits are all free.
C38_Witness ==
    /\ last.op = "get_client" /\ last.sid = 1 /\ last.outcome = "built"
    /\ mgr[ManagerOf(1)].is_configured
    /\ mgr[ManagerOf(1)].config = DefaultConfig
    /\ clients[last.ret].permits = clients[last.ret].limit
    /\ \E c \in LiveClients :
          /\ c # last.ret
          /\ CachedBy(2) # Some(c)
          /\ clients[c].config = DefaultConfig
          /\ clients[c].permits < clients[c].limit

====
